---- MODULE Spec2Model ----
(***************************************************************************)
(* Formula validation and enforcement pipeline of the Formula Guru server. *)
(*                                                                         *)
(* Strings are TLA+ strings, handled character by character with Len,     *)
(* SubSeq and \o.  Module text is ASCII, so the few non-ASCII characters   *)
(* of the source are written with ASCII characters of the same regex      *)
(* class (none is a word character, a digit or white space):              *)
(*     U+2019 (right single quote)  as  '                                   *)
(*     U+2011 (non-breaking hyphen) as  ~                                   *)
(*     U+00E9, U+00E8 (e acute, e grave) as  ^                              *)
(*     U+2014 (em dash)             as  =                                   *)
(*     U+2013 (en dash)             as  |                                   *)
(***************************************************************************)
EXTENDS Integers, Sequences, FiniteSets, TLC

(***************************************************************************)
(* Characters and the JavaScript string built-ins the source uses.         *)
(***************************************************************************)
Digits == {"0", "1", "2", "3", "4", "5", "6", "7", "8", "9"}

UpperSeq == "ABCDEFGHIJKLMNOPQRSTUVWXYZ"

LowerSeq == "abcdefghijklmnopqrstuvwxyz"

Uppers == {SubSeq(UpperSeq, i, i) : i \in 1..26}

Lowers == {SubSeq(LowerSeq, i, i) : i \in 1..26}

Letters == Uppers \cup Lowers

\* \w of a JavaScript regular expression
WordChars == Letters \cup Digits \cup {"_"}

\* \s of a JavaScript regular expression (the white space the inputs use)
Spaces == {" "}

CharAt(s, i) == SubSeq(s, i, i)

Max(S) == CHOOSE x \in S : \A y \in S : y <= x

Min(S) == CHOOSE x \in S : \A y \in S : x <= y

\* the lower-case and upper-case letter of each letter
LowerOf == [i \in 1..26 |-> CharAt(LowerSeq, i)]

UpperOf == [i \in 1..26 |-> CharAt(UpperSeq, i)]

LetterIndex ==
  [c \in Letters |-> CHOOSE i \in 1..26 : CharAt(UpperSeq, i) = c \/ CharAt(LowerSeq, i) = c]

LowerChar(c) == IF c \in Uppers THEN LowerOf[LetterIndex[c]] ELSE c

UpperChar(c) == IF c \in Lowers THEN UpperOf[LetterIndex[c]] ELSE c

RECURSIVE ToLower(_)
\* String.prototype.toLowerCase
ToLower(s) ==
  IF Len(s) = 0 THEN ""
  ELSE IF Len(s) = 1 THEN LowerChar(s)
  ELSE ToLower(SubSeq(s, 1, Len(s) \div 2)) \o ToLower(SubSeq(s, (Len(s) \div 2) + 1, Len(s)))

\* the part of s from its first to its last position in keep
Span(s, keep) == IF keep = {} THEN "" ELSE SubSeq(s, Min(keep), Max(keep))

\* String.prototype.trim
Trim(s) == Span(s, {i \in 1..Len(s) : CharAt(s, i) \notin Spaces})

\* offsets (0-based) at which sub occurs in s
Occurrences(s, sub) ==
  {p \in 0..(Len(s) - Len(sub)) : SubSeq(s, p + 1, p + Len(sub)) = sub}

\* String.prototype.includes
Includes(s, sub) == Occurrences(s, sub) # {}

(***************************************************************************)
(* Regular expressions.  A pattern is a tree; RxEnds(r, s, P, ci) is the   *)
(* set of offsets at which a match of r can end when it starts at an       *)
(* offset of P (offsets are 0..Len(s), offset p lies before character      *)
(* p+1).  ci is the i flag; with it, s is the lower-cased subject.         *)
(***************************************************************************)
Lit(x) == [t |-> "lit", s |-> x]

Cls(set) == [t |-> "cls", c |-> set, neg |-> FALSE]

NotCls(set) == [t |-> "cls", c |-> set, neg |-> TRUE]

Cat(rs) == [t |-> "cat", rs |-> rs]

Alt(rs) == [t |-> "alt", rs |-> rs]

\* r{lo,hi}; hi = -1 is "no upper limit"
Rep(r, lo, hi) == [t |-> "rep", r |-> r, lo |-> lo, hi |-> hi]

Star(r) == Rep(r, 0, -1)

Plus(r) == Rep(r, 1, -1)

Opt(r) == Rep(r, 0, 1)

WB == [t |-> "wb"]

Bol == [t |-> "bol"]

Eol == [t |-> "eol"]

IsWordAt(s, i) == i >= 1 /\ i <= Len(s) /\ CharAt(s, i) \in WordChars

InClass(c, r, ci) ==
  r.neg # (IF ci THEN LowerChar(c) \in r.c \/ UpperChar(c) \in r.c ELSE c \in r.c)

\* the subject as the matcher reads it
Subject(s, ci) == IF ci THEN ToLower(s) ELSE s

\* the ends of the occurrences of pat in s that start at a position of P
LitEnds(pat, s, P) ==
  {p + Len(pat) : p \in {q \in P : /\ q + Len(pat) <= Len(s)
                                   /\ SubSeq(s, q + 1, q + Len(pat)) = pat}}

RECURSIVE RxEnds(_, _, _, _)
RECURSIVE CatEnds(_, _, _, _, _)
RECURSIVE RepEnds(_, _, _, _, _, _)
RxEnds(r, s, P, ci) ==
  IF P = {} THEN {}
  ELSE CASE r.t = "lit" -> LitEnds(Subject(r.s, ci), s, P)
       [] r.t = "cls" ->
         {p + 1 : p \in {q \in P : q < Len(s) /\ InClass(CharAt(s, q + 1), r, ci)}}
       [] r.t = "cat" -> CatEnds(r.rs, 1, s, P, ci)
       [] r.t = "alt" -> UNION {RxEnds(r.rs[k], s, P, ci) : k \in 1..Len(r.rs)}
       [] r.t = "rep" ->
         RepEnds(r.r, s, P, r.lo, IF r.hi < 0 THEN Len(s) + 1 ELSE r.hi, ci)
       [] r.t = "wb" -> {p \in P : IsWordAt(s, p) # IsWordAt(s, p + 1)}
       [] r.t = "bol" -> {p \in P : p = 0}
       [] r.t = "eol" -> {p \in P : p = Len(s)}

CatEnds(rs, k, s, P, ci) ==
  IF k > Len(rs) \/ P = {} THEN P
  ELSE CatEnds(rs, k + 1, s, RxEnds(rs[k], s, P, ci), ci)

RepEnds(r, s, P, lo, hi, ci) ==
  IF hi = 0 \/ P = {} THEN (IF lo > 0 THEN {} ELSE P)
  ELSE (IF lo > 0 THEN {} ELSE P)
       \cup RepEnds(r, s, RxEnds(r, s, P, ci), IF lo > 0 THEN lo - 1 ELSE 0, hi - 1, ci)

\* RegExp.prototype.test
RxTest(r, s, ci) == RxEnds(r, Subject(s, ci), 0..Len(s), ci) # {}

\* the match that starts at the first of the offsets st: <<start, end>>, or
\* <<-1, -1>> when there is none.  Every pattern matched this way is greedy
\* with a single way to continue, so the match JavaScript returns is the
\* longest one at the leftmost start.
MatchAt(r, t, st, ci) ==
  IF st = {} THEN <<-1, -1>> ELSE <<Min(st), Max(RxEnds(r, t, {Min(st)}, ci))>>

MatchStarts(r, t, from, ci) == {p \in from..Len(t) : RxEnds(r, t, {p}, ci) # {}}

MatchIn(r, t, from, ci) == MatchAt(r, t, MatchStarts(r, t, from, ci), ci)

\* the first match at or after offset from
RxFirst(r, s, from, ci) == MatchIn(r, Subject(s, ci), from, ci)

Splice(s, m, by) ==
  IF m[1] < 0 THEN s ELSE SubSeq(s, 1, m[1]) \o by \o SubSeq(s, m[2] + 1, Len(s))

\* String.prototype.replace with a pattern without the g flag
ReplaceFirst(s, r, ci, by) == Splice(s, RxFirst(r, s, 0, ci), by)

RECURSIVE ReplaceAllFrom(_, _, _, _, _)
RECURSIVE ReplaceAllAt(_, _, _, _, _, _)
\* the replacement of the text of s after offset from
ReplaceAllFrom(s, r, ci, by, from) ==
  ReplaceAllAt(s, r, ci, by, from, RxFirst(r, s, from, ci))

\* the same, m being the first match after offset from
ReplaceAllAt(s, r, ci, by, from, m) ==
  IF m[1] < 0 THEN SubSeq(s, from + 1, Len(s))
  ELSE SubSeq(s, from + 1, m[1]) \o by
       \o (IF m[2] > m[1]
           THEN ReplaceAllFrom(s, r, ci, by, m[2])
           ELSE IF m[1] >= Len(s) THEN ""
           ELSE CharAt(s, m[1] + 1) \o ReplaceAllFrom(s, r, ci, by, m[1] + 1))

\* String.prototype.replace with a pattern with the g flag
ReplaceAll(s, r, ci, by) == ReplaceAllFrom(s, r, ci, by, 0)

Before(s, m) == IF m[1] < 0 THEN s ELSE SubSeq(s, 1, m[1])

\* String.prototype.split(pattern)[0]: the text before the first match
SplitHead(s, r, ci) == Before(s, RxFirst(r, s, 0, ci))


(***************************************************************************)
(* Brand catalogs and manufacturer rules (part_005).                       *)
(***************************************************************************)
DEMI_BRANDS ==
  << "Redken Shades EQ", "Wella Color Touch", "Paul Mitchell The Demi",
     "Matrix SoColor Sync", "Goldwell Colorance", "Schwarzkopf Igora Vibrance",
     "Pravana ChromaSilk Express Tones" >>

PERMANENT_BRANDS ==
  << "Redken Color Gels Lacquers", "Wella Koleston Perfect", "Wella Illumina Color",
     "L'Or^al Professionnel Majirel", "Matrix SoColor Permanent", "Goldwell Topchic",
     "Schwarzkopf Igora Royal", "Pravana ChromaSilk Permanent Cr^me Color" >>

SEMI_BRANDS ==
  << "Wella Color Fresh", "Goldwell Elumen", "Pravana ChromaSilk Vivids",
     "Schwarzkopf Chroma ID", "Matrix SoColor Cult" >>

Range(f) == {f[i] : i \in DOMAIN f}

Brands == Range(DEMI_BRANDS) \cup Range(PERMANENT_BRANDS) \cup Range(SEMI_BRANDS)

Categories == {"permanent", "demi", "semi"}

Rule(c, r, d) == [category |-> c, ratio |-> r, developer |-> d]

BRAND_RULES ==
  [b \in Brands |->
    CASE b = "Redken Color Gels Lacquers" ->
           Rule("permanent", "1:1", "Redken Pro~oxide Cream Developer 10/20/30/40 vol")
      [] b = "Wella Koleston Perfect" ->
           Rule("permanent", "1:1", "Welloxon Perfect 3%/6%/9%/12%")
      [] b = "Wella Illumina Color" ->
           Rule("permanent", "1:1", "Welloxon Perfect 3%/6%/9%")
      [] b = "L'Or^al Professionnel Majirel" ->
           Rule("permanent", "1:1.5", "L'Or^al Oxydant Creme")
      [] b = "Matrix SoColor Permanent" ->
           Rule("permanent", "1:1", "Matrix Cream Developer 10/20/30/40 vol")
      [] b = "Goldwell Topchic" ->
           Rule("permanent", "1:1", "Goldwell Topchic Developer Lotion 6%/9%/12%")
      [] b = "Schwarzkopf Igora Royal" ->
           Rule("permanent", "1:1", "IGORA Oil Developer 3%/6%/9%/12%")
      [] b = "Pravana ChromaSilk Permanent Cr^me Color" ->
           Rule("permanent", "1:1.5", "PRAVANA Cr^me Developer 10/20/30/40 vol")
      [] b = "Redken Shades EQ" ->
           Rule("demi", "1:1", "Shades EQ Processing Solution")
      [] b = "Wella Color Touch" ->
           Rule("demi", "1:2", "Color Touch Emulsion 1.9% or 4%")
      [] b = "Paul Mitchell The Demi" ->
           Rule("demi", "1:1", "The Demi Processing Liquid")
      [] b = "Matrix SoColor Sync" ->
           Rule("demi", "1:1", "SoColor Sync Activator")
      [] b = "Goldwell Colorance" ->
           Rule("demi", "2:1", "Colorance System Developer Lotion 2% (7 vol)")
      [] b = "Schwarzkopf Igora Vibrance" ->
           Rule("demi", "1:1", "IGORA VIBRANCE Activator Gel/Lotion 1.9%/4%")
      [] b = "Pravana ChromaSilk Express Tones" ->
           Rule("demi", "1:1.5", "PRAVANA Zero Lift Creme Developer")
      [] b = "Wella Color Fresh" -> Rule("semi", "RTU", "None")
      [] b = "Goldwell Elumen" -> Rule("semi", "RTU", "None")
      [] b = "Pravana ChromaSilk Vivids" -> Rule("semi", "RTU", "None")
      [] b = "Schwarzkopf Chroma ID" -> Rule("semi", "RTU", "None")
      [] b = "Matrix SoColor Cult" -> Rule("semi", "RTU", "None")]

\* null and undefined of JavaScript, where a string is expected
Null == "<null>"

\* the truthiness test  !x  on a string-or-null value
Falsy(x) == x = Null \/ x = ""

Sp == Cls(Spaces)

Dg == Cls(Digits)

\* /\s*\/\s*|\s+or\s+|\s+OR\s+/
DevSplitRx ==
  Alt(<< Cat(<<Star(Sp), Lit("/"), Star(Sp)>>),
         Cat(<<Plus(Sp), Lit("or"), Plus(Sp)>>),
         Cat(<<Plus(Sp), Lit("OR"), Plus(Sp)>>) >>)

\* /\d+%/g
PercentRx == Cat(<<Plus(Dg), Lit("%")>>)

\* /\b(10|20|30|40)\s*vol(?:ume)?\b/ig
VolRx ==
  Cat(<< WB, Alt(<<Lit("10"), Lit("20"), Lit("30"), Lit("40")>>), Star(Sp),
         Lit("vol"), Opt(Lit("ume")), WB >>)

\* /\([^)]*\)/g
ParenRx == Cat(<<Lit("("), Star(NotCls({")"})), Lit(")")>>)

\* /\s{2,}/g
Spaces2Rx == Rep(Sp, 2, -1)

\* first || null
OrNull(x) == IF x = "" THEN Null ELSE x

canonicalDeveloperNameOf(developer) ==
  IF Falsy(developer) \/ developer = "None" THEN Null
  ELSE OrNull(Trim(ReplaceAll(
         ReplaceAll(
           ReplaceAll(
             ReplaceAll(SplitHead(developer, DevSplitRx, FALSE), PercentRx, FALSE, ""),
             VolRx, TRUE, ""),
           ParenRx, FALSE, ""),
         Spaces2Rx, FALSE, " ")))

\* the developer display name of every brand, computed once
DevNames == [b \in Brands |-> canonicalDeveloperNameOf(BRAND_RULES[b].developer)]

canonicalDeveloperName(brand) ==
  IF brand \notin Brands THEN Null ELSE DevNames[brand]


(***************************************************************************)
(* Formula normalizer (part_005).                                          *)
(***************************************************************************)
\* /RTU/i
RtuRx == Lit("RTU")

\* /\bwith\b/i
WithRx == Cat(<<WB, Lit("with"), WB>>)

\* \d+(?:\.\d+)?
NumRx == Cat(<<Plus(Dg), Opt(Cat(<<Lit("."), Plus(Dg)>>))>>)

\* /^(\d+(?:\.\d+)?)\s*:\s*(\d+(?:\.\d+)?)$/
SimpleRatioRx == Cat(<<Bol, NumRx, Star(Sp), Lit(":"), Star(Sp), NumRx, Eol>>)

\* /(\d+(?:\.\d+)?)\s*:\s*(\d+(?:\.\d+)?)/
RatioRx == Cat(<<NumRx, Star(Sp), Lit(":"), Star(Sp), NumRx>>)

\* new RegExp(devName.replace(/[.*+?^${}()|[\]\\]/g, '\\$&'), 'i').test(text):
\* every special character is escaped, so the pattern is the literal name
DevPresent(devName, text) == RxTest(Lit(devName), text, TRUE)

\* out.replace(/\bwith\b/i, by) when out has the word, and otherwise out
\* followed by tail
AtWith(out, by, tail) ==
  IF RxTest(WithRx, out, TRUE) THEN ReplaceFirst(out, WithRx, TRUE, by)
  ELSE out \o tail

\* a developer injection that does not look for the name first
injectDeveloper_always(out, devName) ==
  IF devName # Null THEN AtWith(out, "with " \o devName, " with " \o devName) ELSE out

\* developer injection
injectDeveloper(out, devName) ==
  IF devName # Null /\ ~DevPresent(devName, out)
  THEN AtWith(out, "with " \o devName, " with " \o devName)
  ELSE out

\* a normalizer without ratio injection
injectRatio_never(out, r) == out

\* ratio injection, r being the trimmed ratio of the rule
injectRatio(out, r) ==
  IF RxTest(SimpleRatioRx, r, FALSE) /\ ~RxTest(RatioRx, out, FALSE)
  THEN AtWith(out, "(" \o r \o ") with", " (" \o r \o ")")
  ELSE out

enforceRatioAndDeveloper(formula, brand) ==
  IF Falsy(formula) THEN formula
  ELSE IF brand \notin Brands THEN formula
  ELSE IF RxTest(RtuRx, BRAND_RULES[brand].ratio, TRUE) THEN Trim(formula)
  ELSE Trim(injectRatio(injectDeveloper(Trim(formula), canonicalDeveloperName(brand)),
                        Trim(BRAND_RULES[brand].ratio)))

(***************************************************************************)
(* Formula normalizer (part_000).  Its registry differs from the one of    *)
(* part_005 in two developers.                                             *)
(***************************************************************************)
BRAND_RULES_000 ==
  [BRAND_RULES EXCEPT
     !["Redken Color Gels Lacquers"].developer =
        "Redken Pro-oxide Cream Developer 10/20/30/40 vol",
     !["Schwarzkopf Igora Vibrance"].developer =
        "IGORA VIBRANCE Activator Gel (1.9%/4%) OR Activator Lotion (1.9%/4%)"]

DevNames_000 == [b \in Brands |-> canonicalDeveloperNameOf(BRAND_RULES_000[b].developer)]

\* / with /i
SpWithRx == Lit(" with ")

\* /^(\d+(\.\d+)?):(\d+(\.\d+)?)$/
SimpleRatioRx_000 == Cat(<<Bol, NumRx, Lit(":"), NumRx, Eol>>)

\* out.replace(/ with /i, by) when out has the word between spaces, and
\* otherwise out followed by tail
AtWith_000(out, by, tail) ==
  IF RxTest(SpWithRx, out, TRUE) THEN ReplaceFirst(out, SpWithRx, TRUE, by)
  ELSE out \o tail

injectDeveloper_000(out, devName) ==
  IF devName # Null /\ ~DevPresent(devName, out)
  THEN AtWith_000(out, " with " \o devName \o " ", " with " \o devName)
  ELSE out

injectRatio_000(out, r) ==
  IF RxTest(SimpleRatioRx_000, r, FALSE) /\ ~RxTest(RatioRx, out, FALSE)
  THEN AtWith_000(out, " (" \o r \o ") with ", " (" \o r \o ")")
  ELSE out

\* (formula || '')
OrEmpty(x) == IF Falsy(x) THEN "" ELSE x

enforceRatioAndDeveloper_000(formula, brand) ==
  IF brand \notin Brands THEN formula
  ELSE Trim(injectRatio_000(injectDeveloper_000(Trim(OrEmpty(formula)), DevNames_000[brand]),
                            Trim(BRAND_RULES_000[brand].ratio)))

(***************************************************************************)
(* Shade patterns and the acceptance gate (part_005).                      *)
(***************************************************************************)
Up == Cls(Uppers)

Pat(r, ci) == [rx |-> r, ci |-> ci]

\* /^\s*0?\d{1,2}[A-Z]{1,3}\b/
LevelLettersRx0 ==
  Cat(<<Bol, Star(Sp), Opt(Lit("0")), Rep(Dg, 1, 2), Rep(Up, 1, 3), WB>>)

\* /^\s*\d{1,2}[A-Z]{1,3}\b/
LevelLettersRx == Cat(<<Bol, Star(Sp), Rep(Dg, 1, 2), Rep(Up, 1, 3), WB>>)

\* /^\s*\d{1,2}\/\d{1,2}\b/
SlashRx == Cat(<<Bol, Star(Sp), Rep(Dg, 1, 2), Lit("/"), Rep(Dg, 1, 2), WB>>)

\* /^\s*\d{1,2}-\d{1,2}\b/
HyphenRx == Cat(<<Bol, Star(Sp), Rep(Dg, 1, 2), Lit("-"), Rep(Dg, 1, 2), WB>>)

\* /^\s*[A-Za-z][A-Za-z ]*\b/
NameRx ==
  Cat(<<Bol, Star(Sp), Cls(Letters), Star(Cls(Letters \cup {" "})), WB>>)

ExpressToneNames ==
  << "Platinum", "Violet", "Ash", "Beige", "Gold", "Copper", "Rose", "Silver",
     "Natural", "Clear" >>

LitAlt(words) == Alt([i \in 1..Len(words) |-> Lit(words[i])])

BRAND_PATTERNS ==
  [b \in Brands |->
    CASE b = "Redken Shades EQ" -> <<Pat(LevelLettersRx0, FALSE)>>
      [] b = "Wella Color Touch" ->
           \* /^\s*[1-9]\/\d{1,2}\b/
           <<Pat(Cat(<<Bol, Star(Sp), Cls(Digits \ {"0"}), Lit("/"), Rep(Dg, 1, 2), WB>>),
                 FALSE)>>
      [] b = "Paul Mitchell The Demi" -> <<Pat(LevelLettersRx0, FALSE)>>
      [] b = "Matrix SoColor Sync" -> <<Pat(LevelLettersRx0, FALSE)>>
      [] b = "Goldwell Colorance" ->
           \* /^\s*\d{1,2}[A-Z@]{1,3}\b/
           <<Pat(Cat(<<Bol, Star(Sp), Rep(Dg, 1, 2), Rep(Cls(Uppers \cup {"@"}), 1, 3), WB>>),
                 FALSE)>>
      [] b = "Schwarzkopf Igora Vibrance" ->
           <<Pat(HyphenRx, FALSE), Pat(LevelLettersRx0, FALSE)>>
      [] b = "Pravana ChromaSilk Express Tones" ->
           \* /^\s*(?:Platinum|Violet|Ash|Beige|Gold|Copper|Rose|Silver|Natural|Clear)\b/i
           <<Pat(Cat(<<Bol, Star(Sp), LitAlt(ExpressToneNames), WB>>), TRUE)>>
      [] b = "Redken Color Gels Lacquers" -> <<Pat(LevelLettersRx, FALSE)>>
      [] b = "Wella Koleston Perfect" -> <<Pat(SlashRx, FALSE)>>
      [] b = "Wella Illumina Color" -> <<Pat(SlashRx, FALSE)>>
      [] b = "L'Or^al Professionnel Majirel" ->
           \* /^\s*\d+(?:\.\d+)+\b/
           <<Pat(Cat(<<Bol, Star(Sp), Plus(Dg), Plus(Cat(<<Lit("."), Plus(Dg)>>)), WB>>),
                 FALSE)>>
      [] b = "Matrix SoColor Permanent" -> <<Pat(LevelLettersRx, FALSE)>>
      [] b = "Goldwell Topchic" -> <<Pat(LevelLettersRx, FALSE)>>
      [] b = "Schwarzkopf Igora Royal" -> <<Pat(HyphenRx, FALSE)>>
      [] b = "Pravana ChromaSilk Permanent Cr^me Color" ->
           \* /^\s*(?:\d{1,2}\.[\dA-Z]+|\d{1,2}[A-Z]{1,3})\b/
           <<Pat(Cat(<<Bol, Star(Sp),
                       Alt(<<Cat(<<Rep(Dg, 1, 2), Lit("."), Plus(Cls(Digits \cup Uppers))>>),
                             Cat(<<Rep(Dg, 1, 2), Rep(Up, 1, 3)>>)>>),
                       WB>>), FALSE)>>
      [] b = "Wella Color Fresh" ->
           \* /^\s*(?:\d{1,2}\/\d{1,2}|\d{1,2})\b/
           <<Pat(Cat(<<Bol, Star(Sp),
                       Alt(<<Cat(<<Rep(Dg, 1, 2), Lit("/"), Rep(Dg, 1, 2)>>), Rep(Dg, 1, 2)>>),
                       WB>>), FALSE)>>
      [] b = "Goldwell Elumen" ->
           \* /^\s*@?[A-Z]{1,2}[A-Z0-9]*\b/
           <<Pat(Cat(<<Bol, Star(Sp), Opt(Lit("@")), Rep(Up, 1, 2),
                       Star(Cls(Uppers \cup Digits)), WB>>), FALSE)>>
      [] b = "Pravana ChromaSilk Vivids" -> <<Pat(NameRx, FALSE)>>
      [] b = "Schwarzkopf Chroma ID" ->
           \* /^\s*(?:\d{1,2}-\d{1,2}|Clear|Bonding|Pastel)\b/i
           <<Pat(Cat(<<Bol, Star(Sp),
                       Alt(<<Cat(<<Rep(Dg, 1, 2), Lit("-"), Rep(Dg, 1, 2)>>),
                             Lit("Clear"), Lit("Bonding"), Lit("Pastel")>>),
                       WB>>), TRUE)>>
      [] b = "Matrix SoColor Cult" -> <<Pat(NameRx, FALSE)>>]

\* part.trim().split(/\s+/)[0]: the first white-space-delimited token
FirstToken(part) == SplitHead(Trim(part), Plus(Sp), FALSE)

RECURSIVE SplitOn(_, _)
RECURSIVE SplitAt(_, _, _)
\* String.prototype.split(separator) for a one-character separator
SplitOn(s, sep) == SplitAt(s, sep, Occurrences(s, sep))

\* the same, at being the offsets of the separator in s
SplitAt(s, sep, at) ==
  IF at = {} THEN <<s>>
  ELSE <<SubSeq(s, 1, Min(at))>> \o SplitOn(SubSeq(s, Min(at) + 2, Len(s)), sep)

\* if (token) codes.push(token)
Pushed(token) == IF token = "" THEN <<>> ELSE <<token>>

RECURSIVE Tokens(_)
\* the first token of every part that has one
Tokens(parts) ==
  IF parts = <<>> THEN <<>>
  ELSE Pushed(FirstToken(Head(parts))) \o Tokens(Tail(parts))

extractCodes(formula) ==
  IF Falsy(formula) THEN <<>>
  ELSE Tokens(SplitOn(SplitHead(ReplaceAll(formula, ParenRx, FALSE, ""), WithRx, TRUE), "+"))

AnyMatches(pats, code) == \E k \in DOMAIN pats : RxTest(pats[k].rx, code, pats[k].ci)

matchesPattern(code, brand) ==
  AnyMatches(IF brand \in Brands THEN BRAND_PATTERNS[brand] ELSE <<>>, code)

\* /^\s*n\/a/i
NaRx == Cat(<<Bol, Star(Sp), Lit("n/a")>>)

StartsWithNA(formula) == RxTest(NaRx, formula, TRUE)

\* /\d\s*:\s*\d/
RtuRatioRx == Cat(<<Dg, Star(Sp), Lit(":"), Star(Sp), Dg>>)

RxSpecials == {"-", "/", "\\", "^", "$", "*", "+", "?", ".", "(", ")", "|", "[", "]", "{", "}"}

RECURSIVE EscapeRx(_)
\* r.replace(/[-/\\^$*+?.()|[\]{}]/g, '\\$&')
EscapeRx(s) ==
  IF s = "" THEN ""
  ELSE (IF CharAt(s, 1) \in RxSpecials THEN "\\" ELSE "") \o CharAt(s, 1) \o EscapeRx(Tail(s))

\* .replace(/\s*/g, '\\s*'): the pattern also matches the empty string, so
\* the replacement is inserted at every offset of the text
LooseSpaces(s) == ReplaceAll(s, Star(Sp), FALSE, "\\s*")

RECURSIVE ParseRx(_)
RECURSIVE ParseAtom(_, _, _)
\* new RegExp(source): the pattern tree of a source text made of literal
\* characters, escapes (\s, \<char>), the dot and the star
ParseRx(src) ==
  IF src = "" THEN <<>>
  ELSE IF CharAt(src, 1) = "\\" /\ Len(src) >= 2
  THEN ParseAtom(src, IF CharAt(src, 2) = "s" THEN Sp ELSE Lit(CharAt(src, 2)), 2)
  ELSE ParseAtom(src, IF CharAt(src, 1) = "." THEN NotCls({}) ELSE Lit(CharAt(src, 1)), 1)

\* the same, atom being the tree of the first n characters of src
ParseAtom(src, atom, n) ==
  IF Len(src) > n /\ CharAt(src, n + 1) = "*"
  THEN <<Star(atom)>> \o ParseRx(SubSeq(src, n + 2, Len(src)))
  ELSE <<atom>> \o ParseRx(SubSeq(src, n + 1, Len(src)))

\* new RegExp(r.replace(...).replace(/\s*/g, '\\s*'), 'i')
RatioPattern(r) == Cat(ParseRx(LooseSpaces(EscapeRx(r))))

RatioList(brand) ==
  IF brand = "Goldwell Colorance" THEN <<"2:1", "1:1">>
  ELSE <<Trim(BRAND_RULES[brand].ratio)>>

\* the gate's pattern for every ratio the registry uses, computed once
RatioPatterns == [r \in {"1:1", "1:2", "2:1", "1:1.5"} |-> RatioPattern(r)]

Step(f, t) == [nil |-> FALSE, formula |-> f, timing |-> t, note |-> Null]

\* a step that is null (or absent)
NoStep == [nil |-> TRUE, formula |-> Null, timing |-> Null, note |-> Null]

\* a gate that does not look for the developer
developerPresent_any(devName, formula) == TRUE

ratioPresent(ratioList, formula) ==
  \E k \in DOMAIN ratioList : RxTest(RatioPatterns[ratioList[k]], formula, TRUE)

developerPresent(devName, formula) == devName = Null \/ DevPresent(devName, formula)

\* a gate that, for a ready-to-use brand, looks for a ratio only
stepHasRatioAndDeveloper_ratioOnly(step, brand) ==
  IF step.nil \/ Falsy(step.formula) THEN TRUE
  ELSE IF StartsWithNA(step.formula) THEN TRUE
  ELSE IF brand \notin Brands THEN TRUE
  ELSE IF RxTest(RtuRx, BRAND_RULES[brand].ratio, TRUE)
       THEN ~RxTest(RtuRatioRx, step.formula, FALSE)
  ELSE /\ ratioPresent(RatioList(brand), step.formula)
       /\ developerPresent(canonicalDeveloperName(brand), step.formula)

stepHasRatioAndDeveloper(step, brand) ==
  IF step.nil \/ Falsy(step.formula) THEN TRUE
  ELSE IF StartsWithNA(step.formula) THEN TRUE
  ELSE IF brand \notin Brands THEN TRUE
  ELSE IF RxTest(RtuRx, BRAND_RULES[brand].ratio, TRUE)
       THEN ~RxTest(RtuRatioRx, step.formula, FALSE) /\ ~RxTest(WithRx, step.formula, TRUE)
  ELSE /\ ratioPresent(RatioList(brand), step.formula)
       /\ developerPresent(canonicalDeveloperName(brand), step.formula)


(***************************************************************************)
(* Values.  A JSON value the pipeline handles is a record: kind is "obj"   *)
(* for an object, "null" for null and "scalar" for a number, string or    *)
(* boolean; analysis is a string or Null (null, absent); isArr tells       *)
(* whether scenarios is an array, and then scenarios holds its elements.   *)
(* confidence is counted in hundredths.                                    *)
(***************************************************************************)
Obj(a, scs) == [kind |-> "obj", analysis |-> a, isArr |-> TRUE, scenarios |-> scs]

\* an object whose scenarios field is absent, null or not an array
ObjNoList(a) == [kind |-> "obj", analysis |-> a, isArr |-> FALSE, scenarios |-> <<>>]

JsonNull == [kind |-> "null", analysis |-> Null, isArr |-> FALSE, scenarios |-> <<>>]

JsonScalar == [kind |-> "scalar", analysis |-> Null, isArr |-> FALSE, scenarios |-> <<>>]

Scenario(title, roots, melt, ends, processing, confidence) ==
  [title |-> title, condition |-> Null, target_level |-> Null, roots |-> roots,
   melt |-> melt, ends |-> ends, processing |-> processing, confidence |-> confidence]

StepKeys == <<"roots", "melt", "ends">>

StepOf(sc, key) ==
  CASE key = "roots" -> sc.roots [] key = "melt" -> sc.melt [] key = "ends" -> sc.ends

(***************************************************************************)
(* validateOut (part_005).                                                 *)
(***************************************************************************)
\* /^[A-Za-z0-9.]+$/
GenericRx == Cat(<<Bol, Plus(Cls(Letters \cup Digits \cup {"."})), Eol>>)

\* /[\/\-]/
SlashHyphenRx == Cls({"/", "-"})

genericOK(code) ==
  RxTest(GenericRx, Trim(code), FALSE) /\ ~RxTest(SlashHyphenRx, Trim(code), FALSE)

allAccepted(codes, brand) ==
  \A k \in DOMAIN codes : matchesPattern(codes[k], brand) \/ genericOK(codes[k])

\* the code check of validateOut on one formula
codesAccepted(formula, brand) == allAccepted(extractCodes(formula), brand)

FormatReason(brand) == "Unrecognized shade format for " \o brand

RatioReason(brand) == "Missing or incorrect ratio/developer for " \o brand

\* the verdict of validateOut on one step: "" when the step passes
stepVerdict(step, brand) ==
  IF step.nil \/ Falsy(step.formula) THEN ""
  ELSE IF StartsWithNA(step.formula) THEN ""
  ELSE IF ~codesAccepted(step.formula, brand) THEN FormatReason(brand)
  ELSE IF ~stepHasRatioAndDeveloper(step, brand) THEN RatioReason(brand)
  ELSE ""

Valid == [valid |-> TRUE, reason |-> Null]

Invalid(reason) == [valid |-> FALSE, reason |-> reason]

\* the steps of the scenarios in the order validateOut visits them
StepsOf(scenarios) ==
  [i \in 1..(3 * Len(scenarios)) |->
     StepOf(scenarios[((i - 1) \div 3) + 1], StepKeys[((i - 1) % 3) + 1])]

RECURSIVE firstFailure(_, _)
RECURSIVE failureOr(_, _, _)
\* the result of validateOut on the steps
firstFailure(steps, brand) ==
  IF steps = <<>> THEN Valid
  ELSE failureOr(stepVerdict(Head(steps), brand), Tail(steps), brand)

\* the same, verdict being the verdict of the step before the steps
failureOr(verdict, steps, brand) ==
  IF verdict # "" THEN Invalid(verdict) ELSE firstFailure(steps, brand)

validateOut(out, brand) ==
  IF out.kind # "obj" \/ ~out.isArr THEN Valid
  ELSE firstFailure(StepsOf(out.scenarios), brand)

(***************************************************************************)
(* Neutral-black and Express Tones guards (part_005).                      *)
(***************************************************************************)
N_SERIES_BLACK_BRANDS ==
  {"Redken Shades EQ", "Paul Mitchell The Demi", "Matrix SoColor Sync", "Goldwell Colorance"}

Words(ws) == LitAlt(ws)

\* /\b(level\s*1(\s*[-|]\s*2)?|level\s*2|jet\s*black|solid\s*black)\b/
Level12BlackRx ==
  Cat(<< WB,
         Alt(<< Cat(<<Lit("level"), Star(Sp), Lit("1"),
                      Opt(Cat(<<Star(Sp), Cls({"-", "|"}), Star(Sp), Lit("2")>>))>>),
                Cat(<<Lit("level"), Star(Sp), Lit("2")>>),
                Cat(<<Lit("jet"), Star(Sp), Lit("black")>>),
                Cat(<<Lit("solid"), Star(Sp), Lit("black")>>) >>),
         WB >>)

\* (analysis || '').toLowerCase()
LowerText(analysis) == IF Falsy(analysis) THEN "" ELSE ToLower(analysis)

isLevel12Black(analysis) == RxTest(Level12BlackRx, LowerText(analysis), FALSE)

\* /\b1A\b/g
\* /1A/g: the token without its word boundaries
OneARx_anywhere == Lit("1A")

OneARx == Cat(<<WB, Lit("1A"), WB>>)

replace1Awith1N(step) ==
  IF step.nil \/ Falsy(step.formula) THEN step
  ELSE [step EXCEPT !.formula = ReplaceAll(step.formula, OneARx, FALSE, "1N")]

enforceNeutralBlack(out, analysis, brand) ==
  IF out.kind # "obj" \/ ~out.isArr THEN out
  ELSE IF brand \notin N_SERIES_BLACK_BRANDS THEN out
  ELSE IF ~isLevel12Black(analysis) THEN out
  ELSE [out EXCEPT !.scenarios =
          [i \in DOMAIN out.scenarios |->
             [out.scenarios[i] EXCEPT !.roots = replace1Awith1N(@),
                                      !.melt = replace1Awith1N(@),
                                      !.ends = replace1Awith1N(@)]]]

\* /\b(level\s*1|level\s*2|jet\s*black|solid\s*black)\b/
JetBlackRx ==
  Cat(<< WB,
         Alt(<< Cat(<<Lit("level"), Star(Sp), Lit("1")>>),
                Cat(<<Lit("level"), Star(Sp), Lit("2")>>),
                Cat(<<Lit("jet"), Star(Sp), Lit("black")>>),
                Cat(<<Lit("solid"), Star(Sp), Lit("black")>>) >>),
         WB >>)

\* /\b(vivid|vibrant|rich)\s+red\b/
VividRedRx ==
  Cat(<<WB, Words(<<"vivid", "vibrant", "rich">>), Plus(Sp), Lit("red"), WB>>)

\* /\b(cherry|ruby|crimson|scarlet)\b/
RedWordsRx == Cat(<<WB, Words(<<"cherry", "ruby", "crimson", "scarlet">>), WB>>)

FiveMinutes == "Process 5 minutes only; watch visually."

JetBlackPlan ==
  Obj("Express Tones not suitable for level 1|2 black hair.",
      << Scenario("Primary plan", NoStep, NoStep,
                  Step("N/A = Express Tones require pre~lightened level 8|10; consider PRAVANA VIVIDS or permanent colour.", ""),
                  <<"Not applicable for this photo.">>, 80) >>)

VividRedPlan ==
  Obj("Express Tones are toners and do not provide vivid saturation.",
      << Scenario("Primary plan", NoStep, NoStep,
                  Step("N/A = For saturated red, use PRAVANA VIVIDS Red/Copper; a 5~min Rose toner may gloss pre~lightened hair.", ""),
                  <<"Use a direct dye for vivid red; optional toner gloss afterwards.">>, 80) >>)

isJetBlack(a) == RxTest(JetBlackRx, a, FALSE)

wantsVividRed(a) == RxTest(VividRedRx, a, FALSE) \/ RxTest(RedWordsRx, a, FALSE)

\* the guard on an Express Tones output, a being the lower-cased analysis
guardedPlan(out, a) ==
  IF isJetBlack(a) THEN JetBlackPlan
  ELSE IF wantsVividRed(a) THEN VividRedPlan
  ELSE [out EXCEPT !.scenarios =
          [i \in DOMAIN out.scenarios |->
             [out.scenarios[i] EXCEPT !.ends =
                IF @.nil THEN NoStep ELSE [@ EXCEPT !.timing = FiveMinutes]]]]

expressTonesGuard(out, analysis, brand) ==
  IF brand # "Pravana ChromaSilk Express Tones" \/ out.kind # "obj" \/ ~out.isArr THEN out
  ELSE guardedPlan(out, LowerText(analysis))


(***************************************************************************)
(* callOpenAI (part_005): the text of the collaborator's reply and how it  *)
(* is parsed.  A reply text is lead \o document \o trail, already trimmed: *)
(* the document is a JSON document denoting doc when ok, and braced tells  *)
(* whether its text starts with "{" and ends with "}".                     *)
(***************************************************************************)
Reply(lead, ok, braced, doc, trail) ==
  [lead |-> lead, ok |-> ok, braced |-> braced, doc |-> doc, trail |-> trail]

\* a reply that is exactly one JSON document
JsonReply(doc) == Reply("", TRUE, doc.kind = "obj", doc, "")

\* an empty reply, or a response without choices or content
EmptyReply == Reply("", FALSE, FALSE, JsonNull, "")

IsEmptyReply(r) == r.lead = "" /\ r.trail = "" /\ ~r.ok /\ ~r.braced

ParseError == Obj("Parse error", <<>>)

Returned(v) == [threw |-> FALSE, error |-> "", value |-> v]

Thrown(e) == [threw |-> TRUE, error |-> e, value |-> JsonNull]

EndsWith(s, c) == s # "" /\ CharAt(s, Len(s)) = c

\* text.match(/\{[\s\S]*\}$/): the text has a "{" and ends with "}"
BraceMatch(r) ==
  /\ Includes(r.lead, "{") \/ r.braced \/ Includes(r.trail, "{")
  /\ IF r.trail = "" THEN r.braced ELSE EndsWith(r.trail, "}")

\* the text from the first "{" to the end is one JSON document
BraceMatchParses(r) == ~Includes(r.lead, "{") /\ r.trail = "" /\ r.ok /\ r.braced

callOpenAI(r) ==
  IF IsEmptyReply(r) THEN Returned(ObjNoList(Null))
  ELSE IF r.lead = "" /\ r.trail = "" /\ r.ok THEN Returned(r.doc)
  ELSE IF BraceMatch(r)
       THEN (IF BraceMatchParses(r) THEN Returned(r.doc) ELSE Thrown("SyntaxError"))
  ELSE Returned(ParseError)

(***************************************************************************)
(* generatePlan (part_005).                                                *)
(***************************************************************************)
MaxAttempts == 2

StrictClause ==
  "Use only real codes or names from the selected brand. Include the official ratio and the exact developer name in every formula. Do not invent shade codes."

extraSystemOf(k) == IF k = 1 THEN StrictClause ELSE ""

patchStep(st, brand) ==
  IF st.nil \/ Falsy(st.formula) THEN st
  ELSE [st EXCEPT !.formula = enforceRatioAndDeveloper(st.formula, brand)]

\* the normalization of the scenarios at the top of the loop body
normalizeOut(out, brand) ==
  IF out.kind # "obj" \/ ~out.isArr THEN out
  ELSE [out EXCEPT !.scenarios =
          [i \in DOMAIN out.scenarios |->
             [out.scenarios[i] EXCEPT !.roots = patchStep(@, brand),
                                      !.melt = patchStep(@, brand),
                                      !.ends = patchStep(@, brand)]]]

\* the output of one attempt as it reaches validateOut; reading out.analysis
\* of null is a TypeError
\* out = enforceNeutralBlack(out, out.analysis, brand)
neutralBlackOf(out, brand) == enforceNeutralBlack(out, out.analysis, brand)

\* a guard step that acts for every brand and writes a '1A' recipe
expressTonesOf_anyBrand(out, brand) ==
  IF out.kind # "obj" \/ ~out.isArr \/ out.scenarios = <<>> THEN out
  ELSE [out EXCEPT !.scenarios[1].ends = Step("1A + Clear", FiveMinutes)]

\* out = expressTonesGuard(out, out.analysis, brand)
expressTonesOf(out, brand) == expressTonesGuard(out, out.analysis, brand)

guardedOut(out, brand) ==
  expressTonesOf(neutralBlackOf(normalizeOut(out, brand), brand), brand)

TitleHasPrimary(sc) ==
  Includes(IF Falsy(sc.title) THEN "" ELSE ToLower(sc.title), "primary")

\* a collapse that keeps the first scenario whatever the titles
primaryOnly_first(scenarios, prim) ==
  IF scenarios # <<>> THEN <<scenarios[1]>> ELSE <<>>

\* category collapse of an accepted output
\* [primary] for  primary = find(...) || scenarios[0], prim being the
\* indices of the scenarios whose title has 'primary'
primaryOnly(scenarios, prim) ==
  IF prim # {} THEN <<scenarios[Min(prim)]>>
  ELSE IF scenarios # <<>> THEN <<scenarios[1]>>
  ELSE <<>>

collapse(out, category) ==
  IF category # "permanent" /\ out.kind = "obj" /\ out.isArr
  THEN [out EXCEPT !.scenarios =
          primaryOnly(@, {i \in DOMAIN @ : TitleHasPrimary(@[i])})]
  ELSE out

fallbackPlan(message) ==
  Obj(message,
      << Scenario("Primary plan", NoStep, NoStep,
                  Step("N/A = " \o message \o ".", ""), <<message>>, 0) >>)

\* a fallback that reports the generic message whatever the reason
fallback_generic(reason, brand) == fallbackPlan("Unrecognized shade(s) for " \o brand)

fallback(reason, brand) ==
  fallbackPlan(IF Falsy(reason) THEN "Unrecognized shade(s) for " \o brand ELSE reason)

(***************************************************************************)
(* The replies the collaborator is taken to give.                          *)
(***************************************************************************)
\* the most scenarios in one reply
MaxScenarios == 2

BRAND_SAMPLES ==
  [b \in Brands |->
    CASE b = "Redken Shades EQ" -> "07NB, 09V, 06T"
      [] b = "Wella Color Touch" -> "7/43, 8/0, 0/00"
      [] b = "Paul Mitchell The Demi" -> "6A, 8NB, 9GV"
      [] b = "Matrix SoColor Sync" -> "6P, 7RC, 10N"
      [] b = "Goldwell Colorance" -> "7GB, 9K, P03"
      [] b = "Schwarzkopf Igora Vibrance" -> "7-65, 8-0, 9-5"
      [] b = "Pravana ChromaSilk Express Tones" -> "Rose, Beige, Silver"
      [] b = "Redken Color Gels Lacquers" -> "6NW, 7AB, 9VRo"
      [] b = "Wella Koleston Perfect" -> "7/43, 9/96, 10/0"
      [] b = "Wella Illumina Color" -> "8/37, 9/59, 10/36"
      [] b = "L'Or^al Professionnel Majirel" -> "7.34, 8.13, 10.22"
      [] b = "Matrix SoColor Permanent" -> "7RC, 6AA, UL-A"
      [] b = "Goldwell Topchic" -> "7NA, 5RB, 9G"
      [] b = "Schwarzkopf Igora Royal" -> "7-46, 9-55, 10-0"
      [] b = "Pravana ChromaSilk Permanent Cr^me Color" -> "6.66, 8N, 10NB"
      [] b = "Wella Color Fresh" -> "8/03, 10/81, 0/00"
      [] b = "Goldwell Elumen" -> "@RR, @TQ, @Clear"
      [] b = "Pravana ChromaSilk Vivids" -> "Magenta, Blue, Neon Pink"
      [] b = "Schwarzkopf Chroma ID" -> "9-12, 5-2, Bonding"
      [] b = "Matrix SoColor Cult" -> "True Blue, Pastel Pink, Neon Yellow"]

\* the first sample code of the brand
SampleCode(b) == SplitHead(BRAND_SAMPLES[b], Lit(","), FALSE)

IsRTU(b) == RxTest(RtuRx, BRAND_RULES[b].ratio, TRUE)

\* the brand's code with the registry ratio and the developer display name
CompliantFormula(b) ==
  IF IsRTU(b) THEN SampleCode(b)
  ELSE SampleCode(b) \o " (" \o BRAND_RULES[b].ratio \o ") with " \o DevNames[b]

ReplyFormulas(b) ==
  { CompliantFormula(b), SampleCode(b), SampleCode(b) \o " (3:1)",
    "07NB (1:1) with Shades EQ Processing Solution",
    "07NB (1 : 1) with shades eq processing solution",
    "7/43 (1:1) with Welloxon Perfect 6%",
    "07NB (1:1) with Welloxon Perfect 6%",
    "Rose (1:1.5) with PRAVANA Zero Lift Creme Developer",
    "Rose 1:1\\.5 with PRAVANA Zero Lift Creme Developer",
    "09NB (1:1.5) with PRAVANA Zero Lift Creme Developer",
    "7GB (1:1) with Colorance System Developer Lotion",
    "8/03", "8/03 (1:1) with Developer", "6Z", "1A + 1A", "N/A = no formula" }

PlainAnalysis == "Level 7 warm blonde."

ReplyAnalyses == {PlainAnalysis, "Level 1 black.", "Client wants vivid red.", Null}

OneScenario(title, f) == Scenario(title, NoStep, NoStep, Step(f, "20 min"), <<"Apply.">>, 50)

\* the scenarios a reply with more than one scenario is built from
ReplyScenarios(b) ==
  { OneScenario("Primary plan", CompliantFormula(b)),
    OneScenario("Alternate (cooler)", CompliantFormula(b)),
    OneScenario("Alternate (warmer)", "7/43 + 8-0"),
    Scenario(Null, Step(SampleCode(b), ""), NoStep, NoStep, <<>>, 50) }

RECURSIVE SeqsOf(_, _)
\* the sequences of exactly n elements of S
SeqsOf(S, n) ==
  IF n = 0 THEN {<<>>} ELSE {Append(q, x) : q \in SeqsOf(S, n - 1), x \in S}

\* n further alternates
Alternates(b, n) == [i \in 1..n |-> OneScenario("Alternate (cooler)", CompliantFormula(b))]

ReplyDocs(b) ==
  {Obj(PlainAnalysis, <<OneScenario("Primary plan", f)>>) : f \in ReplyFormulas(b)}
  \cup {Obj(a, <<OneScenario("Primary plan", f)>>) :
          a \in ReplyAnalyses, f \in {CompliantFormula(b), "1A + 1A"}}
  \cup UNION {{Obj(PlainAnalysis, scs \o Alternates(b, n - 2)) :
                  scs \in SeqsOf(ReplyScenarios(b), 2)} : n \in 2..MaxScenarios}
  \cup {JsonNull, JsonScalar, ObjNoList(Null), ObjNoList(PlainAnalysis),
        Obj(Null, <<>>), Obj(PlainAnalysis, <<>>)}

Replies(b) ==
  {JsonReply(d) : d \in ReplyDocs(b)}
  \cup { EmptyReply,
         Reply("Here is the plan: ", TRUE, TRUE,
               Obj(PlainAnalysis, <<OneScenario("Primary plan", CompliantFormula(b))>>), ""),
         Reply("Plan: ", TRUE, TRUE,
               Obj(PlainAnalysis, <<OneScenario("Primary plan", CompliantFormula(b))>>), " (end of plan)"),
         Reply("I cannot analyse this photo.", FALSE, FALSE, JsonNull, ""),
         Reply("", FALSE, TRUE, JsonNull, ""),
         Reply("Plan {draft}: ", TRUE, TRUE, ObjNoList(PlainAnalysis), "") }

\* the replies for every brand, computed once
RepliesOf == [b \in Brands |-> Replies(b)]

BrandList(category) ==
  IF category = "permanent" THEN PERMANENT_BRANDS
  ELSE IF category = "semi" THEN SEMI_BRANDS
  ELSE DEMI_BRANDS

(***************************************************************************)
(* normalizeBrand and the category of a request (part_005; part_000 has    *)
(* the same code).                                                         *)
(***************************************************************************)
\* k.split(' ')[0]
HeadOf(k) == Head(SplitOn(k, " "))

\* parts[parts.length - 1]
TailOf(k) == SplitOn(k, " ")[Len(SplitOn(k, " "))]

\* pool.has(s): the labels of the pool whose key is s
Exact(pool, s) == {i \in DOMAIN pool : ToLower(pool[i]) = s}

\* the labels whose head or tail is a part of s
Fuzzy(pool, s) ==
  {i \in DOMAIN pool :
     Includes(s, HeadOf(ToLower(pool[i]))) \/ Includes(s, TailOf(ToLower(pool[i])))}

DefaultBrand(category) ==
  IF category = "permanent" THEN "Redken Color Gels Lacquers"
  ELSE IF category = "semi" THEN "Wella Color Fresh"
  ELSE "Redken Shades EQ"

\* a scan that takes the last label that fits
firstFit_last(pool, fits) == pool[Max(fits)]

\* the label the scan of the pool returns first
firstFit(pool, fits) == pool[Min(fits)]

\* the lookup, the scan and the default, s being the trimmed lower-cased input
brandIn(pool, s, category) ==
  IF Exact(pool, s) # {} THEN firstFit(pool, Exact(pool, s))
  ELSE IF Fuzzy(pool, s) # {} THEN firstFit(pool, Fuzzy(pool, s))
  ELSE DefaultBrand(category)

normalizeBrand(category, input) ==
  brandIn(BrandList(category), ToLower(Trim(IF Falsy(input) THEN "" ELSE input)), category)

\* (req.body?.category || 'demi').toString().trim().toLowerCase()
catRawOf(raw) == ToLower(Trim(IF Falsy(raw) THEN "demi" ELSE raw))

\* ['permanent','semi','demi'].includes(catRaw) ? catRaw : 'demi'
categoryOf(raw) == IF catRawOf(raw) \in Categories THEN catRawOf(raw) ELSE "demi"

(***************************************************************************)
(* The pipeline of the /analyze handler of part_000.                       *)
(***************************************************************************)
fixStep(step, brand) ==
  IF step.nil THEN NoStep
  ELSE IF Falsy(step.formula) THEN step
  ELSE [step EXCEPT !.formula = enforceRatioAndDeveloper_000(step.formula, brand)]

timingOverride(step, brand) ==
  IF step.nil THEN step
  ELSE IF brand = "Pravana ChromaSilk Express Tones" THEN [step EXCEPT !.timing = FiveMinutes]
  ELSE step

enforceBrandConsistency(out, brand) ==
  IF out.kind # "obj" \/ ~out.isArr THEN out
  ELSE [out EXCEPT !.scenarios =
          [i \in DOMAIN out.scenarios |->
             [out.scenarios[i] EXCEPT !.roots = timingOverride(fixStep(@, brand), brand),
                                      !.melt = timingOverride(fixStep(@, brand), brand),
                                      !.ends = timingOverride(fixStep(@, brand), brand)]]]

Wd == Cls(WordChars)

\* the patterns of part_000: those of the demi brands are the ones of
\* part_005, the permanent brands have none
BRAND_PATTERNS_000 ==
  [b \in Brands |->
    CASE b \in Range(DEMI_BRANDS) -> BRAND_PATTERNS[b]
      [] b = "Wella Color Fresh" ->
           \* /^\s*(?:\d{1,2}\.\d|\d{1,2})\b/
           <<Pat(Cat(<<Bol, Star(Sp),
                       Alt(<<Cat(<<Rep(Dg, 1, 2), Lit("."), Dg>>), Rep(Dg, 1, 2)>>),
                       WB>>), FALSE)>>
      [] b = "Goldwell Elumen" ->
           \* /^\s*(?:@[\w]+|\w+-\w+|\w{1,2}\d{1,2})\b/
           <<Pat(Cat(<<Bol, Star(Sp),
                       Alt(<<Cat(<<Lit("@"), Plus(Wd)>>),
                             Cat(<<Plus(Wd), Lit("-"), Plus(Wd)>>),
                             Cat(<<Rep(Wd, 1, 2), Rep(Dg, 1, 2)>>)>>),
                       WB>>), FALSE)>>
      [] b = "Pravana ChromaSilk Vivids" ->
           \* /^\s*(?:VIVIDS|Silver|Clear|Magenta|Pink|Blue|Green|Yellow|Orange|Red|Purple)\b/i
           <<Pat(Cat(<<Bol, Star(Sp),
                       LitAlt(<<"VIVIDS", "Silver", "Clear", "Magenta", "Pink", "Blue",
                                "Green", "Yellow", "Orange", "Red", "Purple">>),
                       WB>>), TRUE)>>
      [] b = "Schwarzkopf Chroma ID" ->
           \* /^\s*(?:\d{1,2}-\d{1,2}|Clear|Bonding)\b/i
           <<Pat(Cat(<<Bol, Star(Sp),
                       Alt(<<Cat(<<Rep(Dg, 1, 2), Lit("-"), Rep(Dg, 1, 2)>>),
                             Lit("Clear"), Lit("Bonding")>>),
                       WB>>), TRUE)>>
      [] b = "Matrix SoColor Cult" ->
           \* /^\s*(?:Clear|Neon|Pastel|Teal|Pink|Blue|Purple|Red)\b/i
           <<Pat(Cat(<<Bol, Star(Sp),
                       LitAlt(<<"Clear", "Neon", "Pastel", "Teal", "Pink", "Blue",
                                "Purple", "Red">>),
                       WB>>), TRUE)>>
      [] OTHER -> <<>>]

stepHasAllowedCodes(step, brand) ==
  IF step.nil \/ Falsy(step.formula) THEN TRUE
  ELSE IF brand \notin Brands THEN TRUE
  ELSE IF BRAND_PATTERNS_000[brand] = <<>> THEN TRUE
  ELSE AnyMatches(BRAND_PATTERNS_000[brand], step.formula)

\* the scenario the guard of part_000 puts in the place of the scenarios
NotSuitable(formula, processing) ==
  Scenario("Primary plan", NoStep, NoStep, Step(formula, ""), <<processing>>, 85)

JetBlackPlan_000 ==
  NotSuitable("N/A = Express Tones require pre-lightened level 8|10; use PRAVANA VIVIDS or a permanent plan.",
              "Not applicable for this photo with Express Tones.")

VividRedPlan_000 ==
  NotSuitable("N/A = Express Tones are toners. For saturated red, formulate with PRAVANA VIVIDS Red/Copper; optional quick 5-min Express Tones Rose overlay only on pre-lightened hair.",
              "Use PRAVANA VIVIDS for saturation; gloss later if needed.")

\* /\b(warm|golden|honey|caramel)\b.*\bblonde\b/
WarmThenBlondeRx ==
  Cat(<<WB, Words(<<"warm", "golden", "honey", "caramel">>), WB, Star(NotCls({})),
        WB, Lit("blonde"), WB>>)

\* /\bwarm blonde\b/
WarmBlondeRx == Cat(<<WB, Lit("warm blonde"), WB>>)

wantsWarmBlonde(a) == RxTest(WarmThenBlondeRx, a, FALSE) \/ RxTest(WarmBlondeRx, a, FALSE)

WarmBlondeFormula == "Beige + Gold (1:1.5) with PRAVANA Zero Lift Creme Developer"

\* s.ends || { formula: '', timing: '', note: null }, with the recipe and the timing
warmEnds(ends) ==
  [(IF ends.nil THEN Step("", "") ELSE ends) EXCEPT !.formula = WarmBlondeFormula,
                                                    !.timing = FiveMinutes]

\* a guard that looks at the vivid-red cue first and at the warm-blonde cue whatever the others
guardedPlan_000_redFirst(out, a) ==
  IF wantsVividRed(a) THEN [out EXCEPT !.scenarios = <<VividRedPlan_000>>]
  ELSE IF isJetBlack(a) THEN [out EXCEPT !.scenarios = <<JetBlackPlan_000>>]
  ELSE IF wantsWarmBlonde(a) /\ out.scenarios # <<>>
  THEN [out EXCEPT !.scenarios[1].ends = warmEnds(@)]
  ELSE out

\* the guard of part_000 on an Express Tones output, a being the lower-cased analysis
guardedPlan_000(out, a) ==
  IF isJetBlack(a) THEN [out EXCEPT !.scenarios = <<JetBlackPlan_000>>]
  ELSE IF wantsVividRed(a) THEN [out EXCEPT !.scenarios = <<VividRedPlan_000>>]
  ELSE IF wantsWarmBlonde(a) /\ out.scenarios # <<>>
  THEN [out EXCEPT !.scenarios[1].ends = warmEnds(@)]
  ELSE out

expressTonesGuard_000(out, analysis, brand) ==
  IF out.kind # "obj" \/ ~out.isArr \/ brand # "Pravana ChromaSilk Express Tones" THEN out
  ELSE guardedPlan_000(out, LowerText(analysis))

\* /\b(level\s*1(\s*[-|]\s*2)?|level\s*2|deep\s+black|jet\s+black|solid\s+black)\b/
Level12BlackRx_000 ==
  Cat(<< WB,
         Alt(<< Cat(<<Lit("level"), Star(Sp), Lit("1"),
                      Opt(Cat(<<Star(Sp), Cls({"-", "|"}), Star(Sp), Lit("2")>>))>>),
                Cat(<<Lit("level"), Star(Sp), Lit("2")>>),
                Cat(<<Lit("deep"), Plus(Sp), Lit("black")>>),
                Cat(<<Lit("jet"), Plus(Sp), Lit("black")>>),
                Cat(<<Lit("solid"), Plus(Sp), Lit("black")>>) >>),
         WB >>)

isLevel12Black_000(analysis) == RxTest(Level12BlackRx_000, LowerText(analysis), FALSE)

enforceNeutralBlack_000(out, analysis, brand) ==
  IF out.kind # "obj" \/ ~out.isArr THEN out
  ELSE IF brand \notin N_SERIES_BLACK_BRANDS THEN out
  ELSE IF ~isLevel12Black_000(analysis) THEN out
  ELSE [out EXCEPT !.scenarios =
          [i \in DOMAIN out.scenarios |->
             [out.scenarios[i] EXCEPT !.roots = replace1Awith1N(@),
                                      !.melt = replace1Awith1N(@),
                                      !.ends = replace1Awith1N(@)]]]

\* /\b(level\s*[12]\b|solid\s*black)\b/
BlackRx ==
  Cat(<<WB, Alt(<<Cat(<<Lit("level"), Star(Sp), Cls({"1", "2"}), WB>>),
                  Cat(<<Lit("solid"), Star(Sp), Lit("black")>>)>>), WB>>)

\* /\b(single\s+vivid|vivid|fashion\s+shade|magenta|pink|blue|green|purple|teal|neon)\b/
VividHintRx ==
  Cat(<<WB, Alt(<<Cat(<<Lit("single"), Plus(Sp), Lit("vivid")>>), Lit("vivid"),
                  Cat(<<Lit("fashion"), Plus(Sp), Lit("shade")>>),
                  Words(<<"magenta", "pink", "blue", "green", "purple", "teal", "neon">>)>>),
        WB>>)

isBlackOrSingleVivid(analysis) ==
  RxTest(BlackRx, LowerText(analysis), FALSE) \/ RxTest(VividHintRx, LowerText(analysis), FALSE)

\* extractNumericLevels(text).some(n => n >= 7) for the pattern
\* /\b0?([1-9]|1[0-2])\s*[A-Z@]?/g: the group always holds the one digit its
\* first alternative takes, so a level of 7 or more is a 7, 8 or 9 that
\* stands, after an optional 0, at a word boundary
HighLevelRx == Cat(<<WB, Opt(Lit("0")), Cls({"7", "8", "9"})>>)

\* [roots, melt, ends formulas].filter(Boolean).join(' ')
formulaOr(step) == IF step.nil \/ Falsy(step.formula) THEN "" ELSE step.formula

joined(a, b) == IF a = "" THEN b ELSE IF b = "" THEN a ELSE a \o " " \o b

altHasHighLevelToner(sc) ==
  RxTest(HighLevelRx,
         joined(joined(formulaOr(sc.roots), formulaOr(sc.melt)), formulaOr(sc.ends)), FALSE)

\* s.na = true; s.note = 'Not applicable for this photo/brand line.'
NotApplicable(sc) ==
  [title |-> sc.title, condition |-> sc.condition, target_level |-> sc.target_level,
   roots |-> sc.roots, melt |-> sc.melt, ends |-> sc.ends, processing |-> sc.processing,
   confidence |-> sc.confidence, na |-> TRUE,
   note |-> "Not applicable for this photo/brand line."]

allowedSteps(sc, brand) ==
  /\ stepHasAllowedCodes(sc.roots, brand)
  /\ stepHasAllowedCodes(sc.melt, brand)
  /\ stepHasAllowedCodes(sc.ends, brand)

isAlternate(sc) == Includes(IF Falsy(sc.title) THEN "" ELSE ToLower(sc.title), "alternate")

\* the scenario applyValidator maps a scenario to
checkedAlternate(sc, analysis, brand) ==
  IF ~isAlternate(sc) THEN sc
  ELSE IF isBlackOrSingleVivid(analysis) \/ altHasHighLevelToner(sc) THEN NotApplicable(sc)
  ELSE IF ~allowedSteps(sc, brand) THEN NotApplicable(sc)
  ELSE sc

applyValidator(out, category, brand) ==
  IF out.kind # "obj" \/ ~out.isArr THEN out
  ELSE IF category = "permanent" THEN out
  ELSE [out EXCEPT !.scenarios =
          [i \in DOMAIN out.scenarios |-> checkedAlternate(out.scenarios[i], out.analysis, brand)]]

\* /^[^\s]+/
LeadingTokenRx == Cat(<<Bol, Plus(NotCls(Spaces))>>)

\* a sanitizer that strips the leading token of every present step
stripCode_every(step, brand) ==
  IF ~step.nil /\ ~Falsy(step.formula)
  THEN [step EXCEPT !.formula = Trim(ReplaceFirst(step.formula, LeadingTokenRx, FALSE, ""))]
  ELSE step

\* step.formula.replace(/^[^\s]+/, '').trim() for a step that is not allowed
stripCode(step, brand) ==
  IF ~step.nil /\ ~stepHasAllowedCodes(step, brand) /\ ~Falsy(step.formula)
  THEN [step EXCEPT !.formula = Trim(ReplaceFirst(step.formula, LeadingTokenRx, FALSE, ""))]
  ELSE step

adjusted(sc, brand) ==
  [sc EXCEPT !.processing = <<"Adjusted: removed non-brand shade codes.">> \o @,
             !.roots = stripCode(@, brand),
             !.melt = stripCode(@, brand),
             !.ends = stripCode(@, brand)]

validatePrimaryScenario(out, brand) ==
  IF out.kind # "obj" \/ ~out.isArr THEN out
  ELSE IF out.scenarios = <<>> THEN out
  ELSE IF allowedSteps(out.scenarios[1], brand) THEN out
  ELSE [out EXCEPT !.scenarios[1] = adjusted(@, brand)]

\* out = expressTonesGuard(out, out.analysis, brand)
expressTonesOf_000(out, brand) == expressTonesGuard_000(out, out.analysis, brand)

\* out = enforceNeutralBlack(out, out.analysis, brand)
neutralBlackOf_000(out, brand) == enforceNeutralBlack_000(out, out.analysis, brand)

\* steps 1 to 5 of the handler
pipeline_000(out, category, brand) ==
  validatePrimaryScenario(
    applyValidator(
      neutralBlackOf_000(expressTonesOf_000(enforceBrandConsistency(out, brand), brand), brand),
      category, brand),
    brand)

(***************************************************************************)
(* State of one generatePlan call.                                         *)
(***************************************************************************)
VARIABLES
  pc,          \* "attempt": at the top of the loop; "await": inside callOpenAI; "done"
  reqCategory, \* the category argument
  reqBrand,    \* the brand argument
  attempt,     \* loop counter
  lastReason,  \* reason of the last failed validation
  calls,       \* number of requests sent to the collaborator
  prompts,     \* the extraSystem text of each request sent
  log,         \* per finished attempt: the output validated and the verdict
  outcome,     \* "none", "Accepted", "FallbackReturned" or "Threw"
  error,       \* what was thrown, when outcome is "Threw"
  result,      \* the value returned
  nBrand,      \* the brand the normalizers are applied for
  nFormula,    \* the formula they are applied to
  applied,     \* the successive results of enforceRatioAndDeveloper (part_005)
  applied_000, \* the successive results of enforceRatioAndDeveloper (part_000)
  server,      \* the file whose /analyze handler serves the request
  hpc,         \* position of the handler: "start", "reading", "plan", "chat", "unlink", "finished"
  apiKey,      \* whether process.env.OPENAI_API_KEY is set
  rawCategory, \* req.body.category
  rawBrand,    \* req.body.brand
  tmpFile,     \* the upload: "none", "ondisk" or "deleted"
  tmpPath,     \* whether tmpPath has been assigned
  status,      \* status of the response sent, 0 before
  gBrand,      \* the brand a validator or guard is applied for
  gOut,        \* the output it is applied to
  gCall,       \* the function that has been applied, "" before
  gResult,     \* what it returned
  runs,        \* per concurrent request: its arguments, its position, what it has received and sent, what it returned
  frames,      \* per call of generatePlan: its loop variables attempt and lastReason
  schedule     \* the requests in the order in which their steps have run

planVars ==
  <<pc, reqCategory, reqBrand, attempt, lastReason, calls, prompts, log, outcome, error, result>>

normVars == <<nBrand, nFormula, applied, applied_000>>

handlerVars == <<server, hpc, apiKey, rawCategory, rawBrand, tmpFile, tmpPath, status>>

guardVars == <<gBrand, gOut, gCall, gResult>>

concVars == <<runs, frames, schedule>>

vars == <<planVars, normVars, handlerVars, guardVars, concVars>>

\* the normalizers are not in use
NormIdle == nBrand = "" /\ nFormula = "" /\ applied = <<>> /\ applied_000 = <<>>

\* no request is being handled
HandlerIdle ==
  /\ server = ""
  /\ hpc = "idle"
  /\ apiKey = TRUE
  /\ rawCategory = ""
  /\ rawBrand = ""
  /\ tmpFile = "none"
  /\ tmpPath = FALSE
  /\ status = 0

\* the validators and guards are not in use
GuardIdle == gBrand = "" /\ gOut = JsonNull /\ gCall = "" /\ gResult = JsonNull

\* no requests are served concurrently
ConcIdle == runs = <<>> /\ frames = <<>> /\ schedule = <<>>

Init ==
  /\ reqCategory \in Categories
  /\ reqBrand \in Range(BrandList(reqCategory))
  /\ pc = "attempt"
  /\ attempt = 0
  /\ lastReason = ""
  /\ calls = 0
  /\ prompts = <<>>
  /\ log = <<>>
  /\ outcome = "none"
  /\ error = ""
  /\ result = JsonNull
  /\ NormIdle
  /\ HandlerIdle
  /\ GuardIdle
  /\ ConcIdle

\* generatePlan reaches  await callOpenAI(category, brand, dataUrl, extraSystem)
CallCollaborator ==
  /\ pc = "attempt"
  /\ attempt < MaxAttempts
  /\ calls' = calls + 1
  /\ prompts' = Append(prompts, extraSystemOf(attempt))
  /\ pc' = "await"
  /\ UNCHANGED <<reqCategory, reqBrand, attempt, lastReason, log, outcome, error, result>>
  /\ UNCHANGED <<normVars, handlerVars, guardVars, concVars>>

Throw(e) ==
  /\ pc' = "done"
  /\ outcome' = "Threw"
  /\ error' = e
  /\ UNCHANGED <<reqCategory, reqBrand, attempt, lastReason, calls, prompts, log, result>>
  /\ UNCHANGED <<normVars, handlerVars, guardVars, concVars>>

\* the request fails: client.chat.completions.create rejects
TransportFailure ==
  /\ pc = "await"
  /\ Throw("transport")

\* the loop body from the return of callOpenAI to validateOut: what it
\* throws, or the output it validates and the verdict
\* a loop that goes on whatever the verdict
accepts_never(validation) == FALSE

\* if (validation.valid)
accepts(validation) == validation.valid

\* const validation = validateOut(out, brand)
validated(out, b) ==
  [threw |-> FALSE, error |-> "", out |-> out, validation |-> validateOut(out, b)]

loopBody(parsed, b) ==
  IF parsed.threw
  THEN [threw |-> TRUE, error |-> parsed.error, out |-> JsonNull, validation |-> Valid]
  ELSE IF parsed.value.kind = "null"
  THEN [threw |-> TRUE, error |-> "TypeError", out |-> JsonNull, validation |-> Valid]
  ELSE validated(guardedOut(parsed.value, b), b)

\* the loop body on every reply of every brand, computed once
LoopBodyOf ==
  [b \in Brands |-> [r \in RepliesOf[b] |-> loopBody(callOpenAI(r), b)]]

\* the collaborator replies with the text r
CollaboratorReplies(r) ==
  /\ pc = "await"
  /\ \E step \in {LoopBodyOf[reqBrand][r]} :
       IF step.threw THEN Throw(step.error)
       ELSE /\ log' = Append(log, [out |-> step.out, valid |-> step.validation.valid,
                                   reason |-> step.validation.reason])
            /\ IF accepts(step.validation)
               THEN /\ pc' = "done"
                    /\ outcome' = "Accepted"
                    /\ result' = collapse(step.out, reqCategory)
                    /\ UNCHANGED <<attempt, lastReason>>
               ELSE /\ lastReason' = step.validation.reason
                    /\ attempt' = attempt + 1
                    /\ IF attempt + 1 < MaxAttempts
                       THEN /\ pc' = "attempt"
                            /\ UNCHANGED <<outcome, result>>
                       ELSE /\ pc' = "done"
                            /\ outcome' = "FallbackReturned"
                            /\ result' = fallback(step.validation.reason, reqBrand)
            /\ UNCHANGED <<reqCategory, reqBrand, calls, prompts, error>>
            /\ UNCHANGED <<normVars, handlerVars, guardVars, concVars>>

Next ==
  \/ CallCollaborator
  \/ TransportFailure
  \/ \E r \in RepliesOf[reqBrand] : CollaboratorReplies(r)

Spec == Init /\ [][Next]_vars

(***************************************************************************)
(* The normalizers applied over and over to a formula.                     *)
(***************************************************************************)
\* the most applications of a normalizer to one formula
MaxApplications == 2

\* ratio clauses and developer clauses a formula may come with
RatioClauses == {"", " (1:1)", " (1:2)", " 1 : 1.5"}

DeveloperClauses(b) ==
  {"", " with Foo Developer", " WITH", " with 20 vol + 6N"}
  \cup (IF DevNames[b] = Null THEN {}
        ELSE {" with " \o DevNames[b], " with " \o ToLower(DevNames_000[b]) \o " 6%"})

Formulas(b) ==
  {SampleCode(b) \o rc \o dc : rc \in RatioClauses, dc \in DeveloperClauses(b)}
  \cup {"", Null, "  ", "with Foo", "N/A = none", " N/A = none", "07NB + 09V"}
  \cup {" " \o CompliantFormula(b) \o "  "}

NormInit ==
  /\ nBrand \in Brands
  /\ nFormula \in Formulas(nBrand)
  /\ applied = <<>>
  /\ applied_000 = <<>>
  /\ pc = "idle"
  /\ reqCategory = ""
  /\ reqBrand = ""
  /\ attempt = 0
  /\ lastReason = ""
  /\ calls = 0
  /\ prompts = <<>>
  /\ log = <<>>
  /\ outcome = "none"
  /\ error = ""
  /\ result = JsonNull
  /\ HandlerIdle
  /\ GuardIdle
  /\ ConcIdle

\* what the next application is applied to
Latest(results) == IF results = <<>> THEN nFormula ELSE results[Len(results)]

Apply ==
  /\ Len(applied) < MaxApplications
  /\ applied' = Append(applied, enforceRatioAndDeveloper(Latest(applied), nBrand))
  /\ UNCHANGED <<nBrand, nFormula, applied_000, planVars, handlerVars, guardVars, concVars>>

Apply_000 ==
  /\ Len(applied_000) < MaxApplications
  /\ applied_000' = Append(applied_000, enforceRatioAndDeveloper_000(Latest(applied_000), nBrand))
  /\ UNCHANGED <<nBrand, nFormula, applied, planVars, handlerVars, guardVars, concVars>>

NormNext == Apply \/ Apply_000

SpecNorm == NormInit /\ [][NormNext]_vars

(***************************************************************************)
(* The validators and the guards applied to one output for one brand, the  *)
(* way the /selftest handler of part_005 applies validateOut.              *)
(***************************************************************************)
\* buildOut of the /selftest handler; confidence in hundredths
buildOut(formula, analysis) ==
  Obj(analysis,
      << Scenario("Primary plan", NoStep, NoStep,
                  IF Falsy(formula) THEN NoStep ELSE Step(formula, ""), <<>>, 50) >>)

GuardFormulas(b) ==
  { CompliantFormula(b), SampleCode(b), "",
    SampleCode(b) \o " (1:1)", SampleCode(b) \o " 2 : 1", SampleCode(b) \o " WITH Clear",
    "N/A = not achievable with this line (1:1)",
    "07NB (1:1) with Shades EQ Processing Solution",
    "7/43 (1:1) with Welloxon Perfect 6%",
    "Rose (1:1.5) with PRAVANA Zero Lift Creme Developer",
    "09NB (1:1.5) with PRAVANA Zero Lift Creme Developer",
    "09NB 1:1\\.5 with PRAVANA Zero Lift Creme Developer",
    "Magenta 1:1\\.5 with PRAVANA Zero Lift Creme Developer",
    "rose + Clear 1:1\\.5 with PRAVANA Zero Lift Creme Developer",
    "8/03", "8/03 (1:1) with Developer", "6Z", "without ratio" }

GuardAnalyses ==
  { "", Null, "Level 1 black.", "LEVEL 2 base", "level 1-2", "level 1|2", "Jet black hair",
    "solid  black", "deep black", "jetblack", "Level 10 blonde.", "Level 12",
    "Client wants vivid red.", "cherry cola", "Level 7 warm blonde.", "honey tones, blonde",
    "Jet black; wants rich red or a warm blonde", "Cherry red on honey blonde",
    "Solid black base, golden blonde goal" }

OneAFormulas == {"1A + 1A", "1AB", "1A (1:1) with 1A1A", "11A + 1a", "1A/1A-1A"}

\* a scenario with the three steps
FullScenario(title, f) ==
  Scenario(title, Step(f, "20 min"), Step("1A", ""), Step("6N + 1A", "10 min"), <<"Apply.">>, 50)

GuardDocs(b) ==
  {buildOut(f, "") : f \in GuardFormulas(b)}
  \cup {buildOut(f, a) : f \in {CompliantFormula(b), "1A + 1A"}, a \in GuardAnalyses}
  \cup {buildOut(f, a) : f \in OneAFormulas, a \in {"level 1-2", "Level 7 warm blonde."}}
  \cup {Obj(a, <<FullScenario("Primary plan", CompliantFormula(b)),
                  FullScenario("Alternate (cooler)", "1AB + 1A")>>) :
          a \in {"level 1-2", "Jet black hair", "Client wants vivid red.",
                 "Level 7 warm blonde.", ""}}
  \cup {ObjNoList(a) : a \in {"Level 1 black.", "Level 7 warm blonde."}}
  \cup {Obj(a, <<>>) : a \in {"Level 1 black.", "Level 7 warm blonde."}}
  \cup {Obj("", <<Scenario("Primary plan", NoStep, Step("", ""), Step("N/A = none", ""), <<>>, 50)>>)}
  \cup {Obj(a, <<OneScenario("Primary plan", CompliantFormula(b)), OneScenario(t, f)>>) :
          a \in {PlainAnalysis, "pink hair"}, t \in {"ALTERNATE (warmer)", "Other option"},
          f \in {CompliantFormula(b), "10N + Clear", "09V", "5N + 75"}}

GuardInit ==
  /\ gBrand \in Brands
  /\ gOut \in GuardDocs(gBrand)
  /\ gCall = ""
  /\ gResult = JsonNull
  /\ pc = "idle"
  /\ reqCategory = ""
  /\ reqBrand = ""
  /\ attempt = 0
  /\ lastReason = ""
  /\ calls = 0
  /\ prompts = <<>>
  /\ log = <<>>
  /\ outcome = "none"
  /\ error = ""
  /\ result = JsonNull
  /\ NormIdle
  /\ HandlerIdle
  /\ ConcIdle

\* name(gOut, ...) returns value
Returns(name, value) ==
  /\ gCall = ""
  /\ gCall' = name
  /\ gResult' = value
  /\ UNCHANGED <<gBrand, gOut, planVars, normVars, handlerVars, concVars>>

CallValidateOut == Returns("validateOut", validateOut(gOut, gBrand))

\* stepHasAllowedCodes (part_000) on each step of the output
CallStepHasAllowedCodes ==
  Returns("stepHasAllowedCodes",
          [i \in DOMAIN StepsOf(gOut.scenarios) |->
             stepHasAllowedCodes(StepsOf(gOut.scenarios)[i], gBrand)])

CallExpressTonesGuard ==
  Returns("expressTonesGuard", expressTonesGuard(gOut, gOut.analysis, gBrand))

\* steps 1 and 2 of the handler of part_000
CallExpressTonesGuard_000 ==
  Returns("expressTonesGuard_000",
          expressTonesOf_000(enforceBrandConsistency(gOut, gBrand), gBrand))

CallEnforceNeutralBlack ==
  Returns("enforceNeutralBlack", enforceNeutralBlack(gOut, gOut.analysis, gBrand))

CallEnforceNeutralBlack_000 ==
  Returns("enforceNeutralBlack_000", enforceNeutralBlack_000(gOut, gOut.analysis, gBrand))

\* step 4 of the handler of part_000, the category being the one of the brand
CallApplyValidator ==
  Returns("applyValidator", applyValidator(gOut, BRAND_RULES[gBrand].category, gBrand))

\* step 5 of the handler of part_000
CallValidatePrimaryScenario ==
  Returns("validatePrimaryScenario", validatePrimaryScenario(gOut, gBrand))

\* the two passes in the order of generatePlan and in the other order
CallBothOrders ==
  Returns("bothOrders",
          << expressTonesOf(neutralBlackOf(gOut, gBrand), gBrand),
             neutralBlackOf(expressTonesOf(gOut, gBrand), gBrand) >>)

\* the same for part_000, whose handler runs the guard first
CallBothOrders_000 ==
  Returns("bothOrders_000",
          << expressTonesOf_000(neutralBlackOf_000(gOut, gBrand), gBrand),
             neutralBlackOf_000(expressTonesOf_000(gOut, gBrand), gBrand) >>)

GuardNext ==
  \/ CallBothOrders
  \/ CallBothOrders_000
  \/ CallApplyValidator
  \/ CallValidatePrimaryScenario
  \/ CallValidateOut
  \/ CallStepHasAllowedCodes
  \/ CallExpressTonesGuard
  \/ CallExpressTonesGuard_000
  \/ CallEnforceNeutralBlack
  \/ CallEnforceNeutralBlack_000

SpecGuard == GuardInit /\ [][GuardNext]_vars

(***************************************************************************)
(* The /analyze handlers (part_005 and part_000).  The upload middleware   *)
(* has stored the photo, if the request has one, before the handler runs;  *)
(* the handler is followed from one await to the next.  fs.unlink is taken *)
(* to succeed.                                                             *)
(***************************************************************************)
\* req.body.category of the requests followed
RawCategories == {Null, " Semi ", "PERMANENT", "colour"}

\* req.body.brand of the requests followed
RawBrands == {Null, "express tones", " Wella "}

AnalyzeInit ==
  /\ server \in {"part_005", "part_000"}
  /\ hpc = "start"
  /\ apiKey \in BOOLEAN
  /\ tmpFile \in {"none", "ondisk"}
  /\ rawCategory \in RawCategories
  /\ rawBrand \in RawBrands
  /\ tmpPath = FALSE
  /\ status = 0
  /\ pc = "idle"
  /\ reqCategory = ""
  /\ reqBrand = ""
  /\ attempt = 0
  /\ lastReason = ""
  /\ calls = 0
  /\ prompts = <<>>
  /\ log = <<>>
  /\ outcome = "none"
  /\ error = ""
  /\ result = JsonNull
  /\ NormIdle
  /\ GuardIdle
  /\ ConcIdle

\* the response is sent and the finally block runs
Leave(code) ==
  /\ status' = code
  /\ hpc' = IF tmpPath THEN "unlink" ELSE "finished"

\* from the start of the handler to  await fs.readFile(tmpPath, ...)
Enter ==
  /\ hpc = "start"
  /\ IF ~apiKey
     THEN /\ Leave(401)
          /\ UNCHANGED <<tmpPath, reqCategory, reqBrand>>
     ELSE IF tmpFile = "none"
     THEN /\ Leave(400)
          /\ UNCHANGED <<tmpPath, reqCategory, reqBrand>>
     ELSE /\ reqCategory' = categoryOf(rawCategory)
          /\ reqBrand' = normalizeBrand(categoryOf(rawCategory), rawBrand)
          /\ tmpPath' = TRUE
          /\ hpc' = "reading"
          /\ UNCHANGED status
  /\ UNCHANGED <<pc, attempt, lastReason, calls, prompts, log, outcome, error, result>>
  /\ UNCHANGED <<server, apiKey, rawCategory, rawBrand, tmpFile>>
  /\ UNCHANGED <<normVars, guardVars, concVars>>

\* the file is read; part_005 enters generatePlan, part_000 sends the
\* request of chatAnalyze
ReadFile ==
  /\ hpc = "reading"
  /\ IF server = "part_005"
     THEN hpc' = "plan" /\ pc' = "attempt" /\ UNCHANGED calls
     ELSE hpc' = "chat" /\ calls' = calls + 1 /\ UNCHANGED pc
  /\ UNCHANGED <<reqCategory, reqBrand, attempt, lastReason, prompts, log, outcome, error, result>>
  /\ UNCHANGED <<server, apiKey, rawCategory, rawBrand, tmpFile, tmpPath, status>>
  /\ UNCHANGED <<normVars, guardVars, concVars>>

\* fs.readFile rejects
ReadFileFails ==
  /\ hpc = "reading"
  /\ Leave(502)
  /\ error' = "readFile"
  /\ UNCHANGED <<pc, reqCategory, reqBrand, attempt, lastReason, calls, prompts, log, outcome, result>>
  /\ UNCHANGED <<server, apiKey, rawCategory, rawBrand, tmpFile, tmpPath>>
  /\ UNCHANGED <<normVars, guardVars, concVars>>

\* generatePlan has returned or thrown (part_005)
Respond ==
  /\ hpc = "plan"
  /\ pc = "done"
  /\ Leave(IF outcome = "Threw" THEN 502 ELSE 200)
  /\ UNCHANGED planVars
  /\ UNCHANGED <<server, apiKey, rawCategory, rawBrand, tmpFile, tmpPath>>
  /\ UNCHANGED <<normVars, guardVars, concVars>>

\* the request of chatAnalyze fails (part_000)
ChatFails_000 ==
  /\ hpc = "chat"
  /\ Leave(502)
  /\ error' = "transport"
  /\ UNCHANGED <<pc, reqCategory, reqBrand, attempt, lastReason, calls, prompts, log, outcome, result>>
  /\ UNCHANGED <<server, apiKey, rawCategory, rawBrand, tmpFile, tmpPath>>
  /\ UNCHANGED <<normVars, guardVars, concVars>>

\* what the handler of part_000 does with the parsed reply: steps 1 to 6
analyzed_000(parsed, category, brand) ==
  IF parsed.threw THEN parsed
  ELSE IF parsed.value.kind = "null" THEN Thrown("TypeError")
  ELSE Returned(collapse(pipeline_000(parsed.value, category, brand), category))

\* the collaborator replies with the text r (part_000)
Analyze_000(r) ==
  /\ hpc = "chat"
  /\ \E done \in {analyzed_000(callOpenAI(r), reqCategory, reqBrand)} :
       IF done.threw
       THEN Leave(502) /\ error' = done.error /\ UNCHANGED result
       ELSE Leave(200) /\ result' = done.value /\ UNCHANGED error
  /\ UNCHANGED <<pc, reqCategory, reqBrand, attempt, lastReason, calls, prompts, log, outcome>>
  /\ UNCHANGED <<server, apiKey, rawCategory, rawBrand, tmpFile, tmpPath>>
  /\ UNCHANGED <<normVars, guardVars, concVars>>

\* finally: if (tmpPath) await fs.unlink(tmpPath)
Unlink ==
  /\ hpc = "unlink"
  /\ tmpFile' = "deleted"
  /\ hpc' = "finished"
  /\ UNCHANGED planVars
  /\ UNCHANGED <<server, apiKey, rawCategory, rawBrand, tmpPath, status>>
  /\ UNCHANGED <<normVars, guardVars, concVars>>

AnalyzeNext ==
  \/ Enter
  \/ ReadFile
  \/ ReadFileFails
  \/ CallCollaborator
  \/ TransportFailure
  \/ (pc = "await" /\ \E r \in RepliesOf[reqBrand] : CollaboratorReplies(r))
  \/ Respond
  \/ ChatFails_000
  \/ (hpc = "chat" /\ \E r \in RepliesOf[reqBrand] : Analyze_000(r))
  \/ Unlink

SpecAnalyze == AnalyzeInit /\ [][AnalyzeNext]_vars

(***************************************************************************)
(* normalizeBrand applied to one category and one raw brand.               *)
(***************************************************************************)
\* the category arguments: the three categories and one that is none of them
BrandCategories == Categories \cup {"toner"}

\* the raw brands: absent, empty, blank, exact, padded, partial, unknown
BrandInputs ==
  { Null, "", "   ", "Redken Shades EQ", "redken shades eq", " Wella Illumina Color ",
    "wella illumina color  ", "WELLA", "wella illumina", "goldwell", "my Vivids please",
    "tones", "color", "igora royal", "Matrix", "unknown brand", " schwarzkopf chroma id",
    "ID", "Elumen", "pravana chromasilk vivids" }

BrandInit ==
  /\ reqCategory \in BrandCategories
  /\ rawBrand \in BrandInputs
  /\ reqBrand = ""
  /\ pc = "idle"
  /\ attempt = 0
  /\ lastReason = ""
  /\ calls = 0
  /\ prompts = <<>>
  /\ log = <<>>
  /\ outcome = "none"
  /\ error = ""
  /\ result = JsonNull
  /\ server = ""
  /\ hpc = "idle"
  /\ apiKey = TRUE
  /\ rawCategory = ""
  /\ tmpFile = "none"
  /\ tmpPath = FALSE
  /\ status = 0
  /\ NormIdle
  /\ GuardIdle
  /\ ConcIdle

\* brand = normalizeBrand(category, input)
CallNormalizeBrand ==
  /\ reqBrand = ""
  /\ reqBrand' = normalizeBrand(reqCategory, rawBrand)
  /\ UNCHANGED <<pc, reqCategory, attempt, lastReason, calls, prompts, log, outcome, error, result>>
  /\ UNCHANGED <<normVars, handlerVars, guardVars, concVars>>

BrandNext == CallNormalizeBrand

SpecBrand == BrandInit /\ [][BrandNext]_vars

(***************************************************************************)
(* Requests served concurrently.  The process runs one request until it    *)
(* suspends at an await or returns; the requests followed here suspend     *)
(* while the collaborator is answering.  A request of part_005 is a call   *)
(* of generatePlan, a request of part_000 the call of chatAnalyze and the  *)
(* steps of the handler after it.  The registry (BRAND_RULES,              *)
(* BRAND_PATTERNS, the brand lists) is declared const and no statement of  *)
(* the source assigns to it or to a member of it: it is the definitions    *)
(* above.  What a call of generatePlan declares with let (attempt,         *)
(* lastReason) lives in the frame of that call.                            *)
(***************************************************************************)
Requests == {1, 2}

\* the server, category and brand of the requests followed
RequestsServed ==
  { [server |-> "part_005", category |-> "demi", brand |-> "Redken Shades EQ"],
    [server |-> "part_000", category |-> "demi", brand |-> "Pravana ChromaSilk Express Tones"] }

\* what the collaborator answers to them
ConcDocs(b) ==
  { Obj(PlainAnalysis, <<OneScenario("Primary plan", f)>>) :
      f \in {CompliantFormula(b), SampleCode(b) \o " (3:1)", "8/03"} }
  \cup {Obj("Level 1 black.", <<OneScenario("Primary plan", CompliantFormula(b))>>), JsonNull}

ConcReplies(b) == {JsonReply(d) : d \in ConcDocs(b)}

\* const systemPrompt = buildSystemPrompt(category, brand) + (extraSystem ? ... : '')
systemPromptOf(category, brand, extraSystem) ==
  [base |-> <<category, brand>>, extra |-> extraSystem]

\* loop variables declared once for the module
frameOf_module(q) == 1

\* the frame the loop variables of request q live in: the one of its own call
frameOf(q) == q

NewFrame == [attempt |-> 0, lastReason |-> ""]

NewRun(served) ==
  [server |-> served.server, category |-> served.category, brand |-> served.brand,
   pc |-> "idle", received |-> <<>>, prompts |-> <<>>, reasons |-> <<>>,
   outcome |-> "none", error |-> "", result |-> JsonNull]

ConcInit ==
  /\ runs \in [Requests -> {NewRun(served) : served \in RequestsServed}]
  /\ frames = [q \in Requests |-> NewFrame]
  /\ schedule = <<>>
  /\ pc = "idle"
  /\ reqCategory = ""
  /\ reqBrand = ""
  /\ attempt = 0
  /\ lastReason = ""
  /\ calls = 0
  /\ prompts = <<>>
  /\ log = <<>>
  /\ outcome = "none"
  /\ error = ""
  /\ result = JsonNull
  /\ NormIdle
  /\ HandlerIdle
  /\ GuardIdle

\* request q runs, and the other variables stay
Runs(q) ==
  /\ schedule' = Append(schedule, q)
  /\ UNCHANGED <<planVars, normVars, handlerVars, guardVars>>

\* the request gets as far as its first await: generatePlan declares its
\* loop variables and calls callOpenAI, the handler of part_000 calls
\* chatAnalyze
Begin(q) ==
  /\ runs[q].pc = "idle"
  /\ IF runs[q].server = "part_005"
     THEN /\ frames' = [frames EXCEPT ![frameOf(q)] = NewFrame]
          /\ runs' = [runs EXCEPT ![q].pc = "await",
                                  ![q].prompts = <<systemPromptOf(runs[q].category, runs[q].brand,
                                                                  extraSystemOf(0))>>]
     ELSE /\ runs' = [runs EXCEPT ![q].pc = "await",
                                  ![q].prompts = <<systemPromptOf(runs[q].category, runs[q].brand, "")>>]
          /\ UNCHANGED frames
  /\ Runs(q)

Answer(r) == [ok |-> TRUE, reply |-> r]

NoAnswer == [ok |-> FALSE, reply |-> EmptyReply]

\* the request has returned or thrown
Ended(run, answer, how, e, value) ==
  [run EXCEPT !.pc = "done", !.received = Append(@, answer),
              !.outcome = how, !.error = e, !.result = value]

\* the request of the collaborator fails: the await throws
AnswerFails(q) ==
  /\ runs[q].pc = "await"
  /\ runs' = [runs EXCEPT ![q] = Ended(@, NoAnswer, "Threw", "transport", JsonNull)]
  /\ UNCHANGED frames
  /\ Runs(q)

\* generatePlan resumes with the reply r and runs to its next await or to
\* its return
Resume_005(q, r) ==
  \E step \in {LoopBodyOf[runs[q].brand][r]} :
    IF step.threw
    THEN /\ runs' = [runs EXCEPT ![q] = Ended(@, Answer(r), "Threw", step.error, JsonNull)]
         /\ UNCHANGED frames
    ELSE IF accepts(step.validation)
    THEN /\ runs' = [runs EXCEPT ![q] = Ended(@, Answer(r), "Accepted", "",
                                              collapse(step.out, runs[q].category))]
         /\ UNCHANGED frames
    ELSE /\ frames' = [frames EXCEPT ![frameOf(q)] =
                         [attempt |-> @.attempt + 1, lastReason |-> step.validation.reason]]
         /\ IF frames[frameOf(q)].attempt + 1 < MaxAttempts
            THEN runs' = [runs EXCEPT
                            ![q].received = Append(@, Answer(r)),
                            ![q].reasons = Append(@, step.validation.reason),
                            ![q].prompts =
                               Append(@, systemPromptOf(runs[q].category, runs[q].brand,
                                                        extraSystemOf(frames[frameOf(q)].attempt + 1)))]
            ELSE runs' = [runs EXCEPT
                            ![q] = Ended([@ EXCEPT !.reasons = Append(@, step.validation.reason)],
                                         Answer(r), "FallbackReturned", "",
                                         fallback(step.validation.reason, runs[q].brand))]

\* the handler of part_000 resumes with the reply r and responds
Resume_000(q, r) ==
  /\ \E done \in {analyzed_000(callOpenAI(r), runs[q].category, runs[q].brand)} :
       runs' = [runs EXCEPT ![q] =
                  IF done.threw THEN Ended(@, Answer(r), "Threw", done.error, JsonNull)
                  ELSE Ended(@, Answer(r), "Responded", "", done.value)]
  /\ UNCHANGED frames

Resume(q, r) ==
  /\ runs[q].pc = "await"
  /\ r \in ConcReplies(runs[q].brand)
  /\ IF runs[q].server = "part_005" THEN Resume_005(q, r) ELSE Resume_000(q, r)
  /\ Runs(q)

ConcNext ==
  \/ \E q \in Requests : Begin(q)
  \/ \E q \in Requests : AnswerFails(q)
  \/ \E q \in Requests : \E r \in ConcReplies(runs[q].brand) : Resume(q, r)

SpecConcurrent == ConcInit /\ [][ConcNext]_vars

\* what a request returns when it runs alone and receives the same answers
Outcome(how, e, value, used) == [outcome |-> how, error |-> e, result |-> value, used |-> used]

Pending == Outcome("none", "", JsonNull, 0)

RECURSIVE aloneFrom(_, _, _, _)
aloneStep(step, k, category, brand, received) ==
  IF step.threw THEN Outcome("Threw", step.error, JsonNull, k)
  ELSE IF accepts(step.validation) THEN Outcome("Accepted", "", collapse(step.out, category), k)
  ELSE IF k = MaxAttempts
  THEN Outcome("FallbackReturned", "", fallback(step.validation.reason, brand), k)
  ELSE aloneFrom(k + 1, category, brand, received)

\* generatePlan from its attempt k - 1 on
aloneFrom(k, category, brand, received) ==
  IF k > Len(received) THEN Pending
  ELSE IF ~received[k].ok THEN Outcome("Threw", "transport", JsonNull, k)
  ELSE aloneStep(LoopBodyOf[brand][received[k].reply], k, category, brand, received)

alone_000(done) ==
  IF done.threw THEN Outcome("Threw", done.error, JsonNull, 1)
  ELSE Outcome("Responded", "", done.value, 1)

Alone(run) ==
  IF run.server = "part_005" THEN aloneFrom(1, run.category, run.brand, run.received)
  ELSE IF run.received = <<>> THEN Pending
  ELSE IF ~run.received[1].ok THEN Outcome("Threw", "transport", JsonNull, 1)
  ELSE alone_000(analyzed_000(callOpenAI(run.received[1].reply), run.category, run.brand))

(***************************************************************************)
(* Properties of generatePlan (part_005).                                  *)
(***************************************************************************)
\* C1: generatePlan sends at least one and at most two requests to the
\* collaborator, and it sends the second only after the normalized and
\* guarded output of the first attempt has failed validateOut.
C1_CallsBounded ==
  /\ calls <= 2
  /\ pc = "done" => calls >= 1
  /\ calls = 2 => Len(log) >= 1 /\ ~log[1].valid

\* a run that was accepted on its second request
C1_Witness == pc = "done" /\ calls = 2 /\ outcome = "Accepted"

\* C2: a run in which every collaborator call returns ends in exactly one
\* of Accepted and FallbackReturned; what is accepted is the collapsed
\* output of the earliest attempt that passes validateOut, and the fallback
\* is returned if and only if attempt 0 and attempt 1 both fail validation.
C2_TerminalOutcome ==
  (pc = "done" /\ error # "transport") =>
     /\ outcome \in {"Accepted", "FallbackReturned"}
     /\ outcome = "FallbackReturned" <=>
           (Len(log) = 2 /\ ~log[1].valid /\ ~log[2].valid)
     /\ outcome = "Accepted" =>
           /\ log[Len(log)].valid
           /\ \A i \in 1..(Len(log) - 1) : ~log[i].valid
           /\ result = collapse(log[Len(log)].out, reqCategory)

\* C3: the fallback response has the failure reason of the last attempt as
\* its analysis, and exactly one scenario: titled 'Primary plan', with
\* roots and melt null, ends.formula 'N/A = <reason>.', processing
\* [reason] and confidence 0.
C3_FallbackShape ==
  outcome = "FallbackReturned" =>
     /\ Len(log) = 2
     /\ result.kind = "obj"
     /\ result.analysis = log[2].reason
     /\ result.isArr
     /\ Len(result.scenarios) = 1
     /\ result.scenarios[1].title = "Primary plan"
     /\ result.scenarios[1].roots = NoStep
     /\ result.scenarios[1].melt = NoStep
     /\ result.scenarios[1].ends.formula = "N/A = " \o log[2].reason \o "."
     /\ result.scenarios[1].processing = <<log[2].reason>>
     /\ result.scenarios[1].confidence = 0

\* a fallback after two attempts that failed for different reasons
C3_Witness ==
  outcome = "FallbackReturned" /\ log[1].reason # log[2].reason

\* C4: whatever the collaborator returns, generatePlan returns an object
\* whose analysis is a string and whose scenarios is an array, and it
\* throws only when the collaborator call itself fails.
C4_WellFormedResult ==
  pc = "done" =>
     /\ outcome = "Threw" => error = "transport"
     /\ outcome # "Threw" =>
           result.kind = "obj" /\ result.analysis # Null /\ result.isArr

\* C5: a reply whose text is not JSON, neither as a whole nor from its
\* first brace on, counts as a failed validation: the attempt is neither
\* accepted nor ended by an exception, and the loop moves on.
C5_UnparseableRejected ==
  [][\A r \in RepliesOf[reqBrand] :
       ( /\ ~IsEmptyReply(r)
         /\ ~(r.lead = "" /\ r.trail = "" /\ r.ok)
         /\ ~BraceMatchParses(r)
         /\ CollaboratorReplies(r) )
       => (outcome' \notin {"Accepted", "Threw"} /\ attempt' = attempt + 1)]_vars

\* C6: for category demi or semi the scenarios of the result generatePlan
\* returns has exactly one element.
C6_SinglePrimary ==
  (pc = "done" /\ outcome # "Threw" /\ reqCategory \in {"demi", "semi"}) =>
     result.isArr /\ Len(result.scenarios) = 1

\* C7: in a result accepted for a brand that is not ready-to-use, every
\* roots, melt and ends formula that does not start with 'N/A' contains the
\* ratio of the brand's rule and the brand's developer display name.
C7_RatioAndDeveloper ==
  (outcome = "Accepted" /\ ~IsRTU(reqBrand) /\ result.isArr) =>
     \A i \in DOMAIN result.scenarios : \A k \in DOMAIN StepKeys :
        \A st \in {StepOf(result.scenarios[i], StepKeys[k])} :
           (~st.nil /\ ~Falsy(st.formula) /\ ~StartsWithNA(st.formula)) =>
              /\ Includes(st.formula, Trim(BRAND_RULES[reqBrand].ratio))
              /\ Includes(st.formula, DevNames[reqBrand])

\* C8: validateOut rejects an output whenever a code that extractCodes
\* finds in a formula not starting with 'N/A' matches none of the brand's
\* patterns: in every output it passes, every such code matches one.
C8_CodesMatch ==
  \A n \in DOMAIN log :
     (log[n].valid /\ log[n].out.isArr) =>
        \A i \in DOMAIN log[n].out.scenarios : \A k \in DOMAIN StepKeys :
           \A st \in {StepOf(log[n].out.scenarios[i], StepKeys[k])} :
              (~st.nil /\ ~Falsy(st.formula) /\ ~StartsWithNA(st.formula)) =>
                 \A c \in Range(extractCodes(st.formula)) : matchesPattern(c, reqBrand)

(***************************************************************************)
(* Properties of enforceRatioAndDeveloper (part_005 and part_000).         *)
(***************************************************************************)
\* C9, as stated: for a brand that is not ready-to-use and a formula that
\* does not start with 'N/A', the normalized formula contains the ratio of
\* the brand's rule and the brand's developer display name.
C9_ContainsRatioAndDeveloper ==
  (~IsRTU(nBrand) /\ nFormula # Null /\ ~StartsWithNA(nFormula)) =>
     /\ Len(applied) >= 1 =>
           /\ Includes(applied[1], Trim(BRAND_RULES[nBrand].ratio))
           /\ Includes(applied[1], DevNames[nBrand])
     /\ Len(applied_000) >= 1 =>
           /\ Includes(applied_000[1], Trim(BRAND_RULES_000[nBrand].ratio))
           /\ Includes(applied_000[1], DevNames_000[nBrand])

\* C9, amended: for a brand that is not ready-to-use and a formula that
\* does not start with 'N/A' (and is not empty, for part_005), the
\* normalized formula contains the developer display name up to letter
\* case; it contains the ratio of the rule in parentheses when the formula
\* has no ratio token, and otherwise exactly when the formula already did.
C9_DeveloperAndMissingRatio ==
  (~IsRTU(nBrand) /\ nFormula # Null /\ ~StartsWithNA(nFormula)) =>
     /\ (Len(applied) >= 1 /\ nFormula # "") =>
           /\ DevPresent(DevNames[nBrand], applied[1])
           /\ Includes(applied[1], "(" \o Trim(BRAND_RULES[nBrand].ratio) \o ")")
                <=> ( \/ ~RxTest(RatioRx, nFormula, FALSE)
                      \/ Includes(nFormula, "(" \o Trim(BRAND_RULES[nBrand].ratio) \o ")") )
     /\ Len(applied_000) >= 1 =>
           /\ DevPresent(DevNames_000[nBrand], applied_000[1])
           /\ Includes(applied_000[1], "(" \o Trim(BRAND_RULES_000[nBrand].ratio) \o ")")
                <=> ( \/ ~RxTest(RatioRx, nFormula, FALSE)
                      \/ Includes(nFormula, "(" \o Trim(BRAND_RULES_000[nBrand].ratio) \o ")") )

\* both normalizers have acted on a formula with another ratio token and a
\* 'with' clause naming another product
C9_Witness ==
  /\ ~IsRTU(nBrand)
  /\ nFormula = SampleCode(nBrand) \o " (1:2) with Foo Developer"
  /\ Trim(BRAND_RULES[nBrand].ratio) # "1:2"
  /\ Len(applied) >= 1
  /\ Len(applied_000) >= 1

\* C10: enforceRatioAndDeveloper is idempotent: applied to its own result
\* it returns that result.
C10_Idempotent ==
  /\ \A i \in 1..(Len(applied) - 1) : applied[i + 1] = applied[i]
  /\ \A i \in 1..(Len(applied_000) - 1) : applied_000[i + 1] = applied_000[i]

\* both normalizers have changed a formula and have been applied again
C10_Witness ==
  /\ Len(applied) >= 2
  /\ applied[1] # nFormula
  /\ Len(applied_000) >= 2
  /\ applied_000[1] # nFormula

(***************************************************************************)
(* Properties of the acceptance gate (part_005).                           *)
(***************************************************************************)
\* a ratio token n:m, with or without white space around the colon
RatioTokenRx == Cat(<<Dg, Star(Sp), Lit(":"), Star(Sp), Dg>>)

\* the formula has a ratio token or the word 'with'
HasRatioOrWith(f) == RxTest(RatioTokenRx, f, FALSE) \/ RxTest(WithRx, f, TRUE)

\* the steps of the output that have a formula
FormulaSteps(o) ==
  {st \in Range(StepsOf(o.scenarios)) : ~st.nil /\ ~Falsy(st.formula)}

\* C11, as stated: for a ready-to-use brand, every step formula with a
\* ratio token n:m or the word 'with' fails stepHasRatioAndDeveloper, and
\* validateOut returns valid=false for an output that has such a step.
C11_RtuRejectsRatioOrWith ==
  (gCall = "validateOut" /\ IsRTU(gBrand)) =>
     \A st \in FormulaSteps(gOut) :
        HasRatioOrWith(st.formula) =>
           ~stepHasRatioAndDeveloper(st, gBrand) /\ ~gResult.valid

\* C11, amended: the same for every step formula that does not start with
\* 'N/A'; a formula that starts with 'N/A' passes the gate whatever follows.
C11_RtuRejectsUnlessNA ==
  (gCall = "validateOut" /\ IsRTU(gBrand)) =>
     \A st \in FormulaSteps(gOut) :
        /\ (HasRatioOrWith(st.formula) /\ ~StartsWithNA(st.formula)) =>
              ~stepHasRatioAndDeveloper(st, gBrand) /\ ~gResult.valid
        /\ StartsWithNA(st.formula) => stepHasRatioAndDeveloper(st, gBrand)

\* validateOut has rejected the formula of the selftest 'Wella Color Fresh
\* with ratio fails', and a formula that has the word 'WITH' and no ratio
C11_Witness ==
  /\ gCall = "validateOut"
  /\ IsRTU(gBrand)
  /\ ~gResult.valid
  /\ \/ gBrand = "Wella Color Fresh" /\ gOut = buildOut("8/03 (1:1) with Developer", "")
     \/ gOut = buildOut(SampleCode(gBrand) \o " WITH Clear", "")

\* every code of the formula matches a pattern of the brand
CodesMatch(f, b) == \A c \in Range(extractCodes(f)) : matchesPattern(c, b)

\* a compliant formula: codes of the brand and, for a brand that is not
\* ready-to-use, the ratio of the rule and the developer display name, or,
\* for a ready-to-use brand, no ratio token and no 'with'
Compliant(f, b) ==
  /\ CodesMatch(f, b)
  /\ IF IsRTU(b) THEN ~HasRatioOrWith(f)
     ELSE /\ Includes(f, Trim(BRAND_RULES[b].ratio))
          /\ DevNames[b] # Null => Includes(f, DevNames[b])

\* C12: validateOut returns valid=true for an output whose step formulas
\* are all compliant, for every brand; among them 'Rose (1:1.5) with
\* PRAVANA Zero Lift Creme Developer' for Pravana ChromaSilk Express Tones
\* and '07NB (1:1) with Shades EQ Processing Solution' for Redken Shades EQ.
C12_CompliantIsValid ==
  (gCall = "validateOut" /\ FormulaSteps(gOut) # {}) =>
     ((\A st \in FormulaSteps(gOut) : Compliant(st.formula, gBrand)) => gResult.valid)

\* the code is one of the ten shade names, in any letter case
IsToneName(code) == \E k \in DOMAIN ExpressToneNames : ToLower(code) = ToLower(ExpressToneNames[k])

\* the formula has codes, and the first of them is not a shade name
LeadsWithOtherCode(f) ==
  extractCodes(f) # <<>> /\ ~IsToneName(Head(extractCodes(f)))

\* C13: for Pravana ChromaSilk Express Tones, validateOut rejects every
\* output with a step formula one of whose codes is not one of the ten
\* shade names (a numeric level code such as '09NB'), whatever ratio and
\* developer the formula has, and stepHasAllowedCodes of part_000 returns
\* false for a step formula that starts with such a code.
C13_ExpressTonesNamesOnly ==
  gBrand = "Pravana ChromaSilk Express Tones" =>
     /\ gCall = "validateOut" =>
           \A st \in FormulaSteps(gOut) :
              ( /\ ~StartsWithNA(st.formula)
                /\ \E c \in Range(extractCodes(st.formula)) : ~IsToneName(c) )
              => ~gResult.valid
     /\ gCall = "stepHasAllowedCodes" =>
           \A i \in DOMAIN gResult :
              \A st \in {StepsOf(gOut.scenarios)[i]} :
                 (~st.nil /\ ~Falsy(st.formula) /\ LeadsWithOtherCode(st.formula))
                 => ~gResult[i]

(***************************************************************************)
(* Properties of the guards (part_005 and part_000).                       *)
(***************************************************************************)
\* C14: for Pravana ChromaSilk Express Tones and an analysis with a
\* jet-black cue (level 1, level 2, jet black, solid black), the guard
\* returns, whatever scenarios the output came with, exactly one scenario:
\* titled 'Primary plan', roots and melt null, ends.formula starting with
\* 'N/A'.
C14_JetBlackPrimaryOnly ==
  ( /\ gCall \in {"expressTonesGuard", "expressTonesGuard_000"}
    /\ gBrand = "Pravana ChromaSilk Express Tones"
    /\ isJetBlack(LowerText(gOut.analysis)) )
  => /\ gResult.isArr
     /\ Len(gResult.scenarios) = 1
     /\ gResult.scenarios[1].title = "Primary plan"
     /\ gResult.scenarios[1].roots = NoStep
     /\ gResult.scenarios[1].melt = NoStep
     /\ SubSeq(gResult.scenarios[1].ends.formula, 1, 3) = "N/A"

\* '1A' stands at position p of f as a whole word
IsOneA(f, p) ==
  /\ p >= 1
  /\ p + 1 <= Len(f)
  /\ SubSeq(f, p, p + 1) = "1A"
  /\ (p = 1 \/ CharAt(f, p - 1) \notin WordChars)
  /\ (p + 1 = Len(f) \/ CharAt(f, p + 2) \notin WordChars)

\* g is f with the 'A' of every whole-word '1A' turned into 'N', nothing else
Rewritten(f, g) ==
  /\ Len(g) = Len(f)
  /\ \A p \in 1..Len(f) : CharAt(g, p) = IF IsOneA(f, p - 1) THEN "N" ELSE CharAt(f, p)

StepRewritten(s, t) ==
  IF s.nil \/ Falsy(s.formula) THEN t = s
  ELSE /\ t = [s EXCEPT !.formula = t.formula]
       /\ Rewritten(s.formula, t.formula)

ScenarioRewritten(sc, tc) ==
  /\ tc = [sc EXCEPT !.roots = tc.roots, !.melt = tc.melt, !.ends = tc.ends]
  /\ StepRewritten(sc.roots, tc.roots)
  /\ StepRewritten(sc.melt, tc.melt)
  /\ StepRewritten(sc.ends, tc.ends)

BlackCue(call, analysis) ==
  IF call = "enforceNeutralBlack" THEN isLevel12Black(analysis) ELSE isLevel12Black_000(analysis)

\* C15: for Redken Shades EQ, Paul Mitchell The Demi, Matrix SoColor Sync
\* and Goldwell Colorance, and an analysis with the level-1/2/black cue,
\* enforceNeutralBlack turns every whole-word '1A' of the roots, melt and ends
\* formulas of every scenario into '1N' and changes nothing else; for any
\* other brand, or without the cue, the output equals the input.
C15_NeutralBlackRewrite ==
  gCall \in {"enforceNeutralBlack", "enforceNeutralBlack_000"} =>
    IF /\ gOut.isArr
       /\ gBrand \in {"Redken Shades EQ", "Paul Mitchell The Demi",
                       "Matrix SoColor Sync", "Goldwell Colorance"}
       /\ BlackCue(gCall, gOut.analysis)
    THEN /\ gResult = [gOut EXCEPT !.scenarios = gResult.scenarios]
         /\ Len(gResult.scenarios) = Len(gOut.scenarios)
         /\ \A i \in DOMAIN gOut.scenarios :
               ScenarioRewritten(gOut.scenarios[i], gResult.scenarios[i])
    ELSE gResult = gOut

C15_Witness ==
  /\ gCall = "enforceNeutralBlack"
  /\ gBrand = "Redken Shades EQ"
  /\ gOut.analysis = "level 1-2"
  /\ gOut.isArr
  /\ Len(gOut.scenarios) = 2
  /\ gOut.scenarios[2].roots.formula = "1AB + 1A"
  /\ gResult.scenarios[2].roots.formula = "1AB + 1N"
  /\ gResult.scenarios[2].ends.formula = "6N + 1N"

\* C18: for Pravana ChromaSilk Express Tones, after the brand-consistency
\* and guard steps every scenario whose ends step is present has ends.timing
\* 'Process 5 minutes only; watch visually.', in every guard branch
\* (jet-black replacement, vivid-red replacement, warm-blonde overwrite, no
\* cue).
C18_ExpressTonesTiming ==
  ( /\ gCall \in {"expressTonesGuard", "expressTonesGuard_000"}
    /\ gBrand = "Pravana ChromaSilk Express Tones"
    /\ gOut.isArr )
  => \A i \in DOMAIN gResult.scenarios :
       ~gResult.scenarios[i].ends.nil =>
         gResult.scenarios[i].ends.timing = "Process 5 minutes only; watch visually."

(***************************************************************************)
(* End-to-end examples of generatePlan (part_005).                         *)
(***************************************************************************)
\* the reply with a single scenario whose ends.formula is '6Z'
SixZReply == JsonReply(Obj(PlainAnalysis, <<OneScenario("Primary plan", "6Z")>>))

\* C17: when the collaborator returns, on both attempts, a single scenario
\* whose ends.formula is '6Z' for Redken Color Gels Lacquers, both attempts
\* fail validation and generatePlan returns the fallback, its analysis
\* containing 'Unrecognized shade(s) for Redken Color Gels Lacquers' and its
\* ends.formula being 'N/A = Unrecognized shade(s) for Redken Color Gels
\* Lacquers.'.
C17_SixZFallsBack ==
  [][ (reqBrand = "Redken Color Gels Lacquers" /\ CollaboratorReplies(SixZReply))
      => /\ ~log'[Len(log')].valid
         /\ (attempt = 1 /\ log[1].out = log'[2].out)
            => /\ outcome' = "FallbackReturned"
               /\ Includes(result'.analysis,
                           "Unrecognized shade(s) for Redken Color Gels Lacquers")
               /\ result'.scenarios[1].ends.formula =
                    "N/A = Unrecognized shade(s) for Redken Color Gels Lacquers." ]_vars

(***************************************************************************)
(* Properties of the /analyze handlers (part_005 and part_000).            *)
(***************************************************************************)
\* the title contains 'primary', whatever the case of its letters
HasPrimary(sc) ==
  /\ ~Falsy(sc.title)
  /\ \E p \in 1..(Len(sc.title) - 6) : ToLower(SubSeq(sc.title, p, p + 6)) = "primary"

\* sc is the first scenario of the list titled 'primary', or the first
\* scenario when none is
IsChosen(list, sc) ==
  \E i \in DOMAIN list :
     /\ list[i] = sc
     /\ \A j \in 1..(i - 1) : ~HasPrimary(list[j])
     /\ HasPrimary(list[i]) \/ (i = 1 /\ \A j \in DOMAIN list : ~HasPrimary(list[j]))

\* the reply parses to an object with at least 2 scenarios
TwoOrMore(r) ==
  /\ ~callOpenAI(r).threw
  /\ callOpenAI(r).value.isArr
  /\ Len(callOpenAI(r).value.scenarios) >= 2

RepliesFor(b) == IF b \in Brands THEN RepliesOf[b] ELSE {}

\* C16: for category demi or semi and a collaborator response with at
\* least 2 scenarios, the result returned has exactly 1 scenario; in an
\* Accepted result it is the first scenario, in the order of the list that
\* reaches the collapse, whose title contains 'primary' whatever the case,
\* or the first of the list when no title does.
C16_CollapseToPrimary ==
  [][ \A r \in RepliesFor(reqBrand) :
        (reqCategory \in {"demi", "semi"} /\ TwoOrMore(r)) =>
          /\ (CollaboratorReplies(r) /\ pc' = "done" /\ outcome' # "Threw")
               => /\ Len(result'.scenarios) = 1
                  /\ outcome' = "Accepted"
                       => IsChosen(log'[Len(log')].out.scenarios, result'.scenarios[1])
          /\ (Analyze_000(r) /\ status' = 200)
               => /\ Len(result'.scenarios) = 1
                  /\ IsChosen(pipeline_000(callOpenAI(r).value, reqCategory, reqBrand).scenarios,
                              result'.scenarios[1]) ]_vars

C16_Witness ==
  /\ server = "part_005"
  /\ status = 200
  /\ reqCategory = "semi"
  /\ outcome = "Accepted"
  /\ Len(log[Len(log)].out.scenarios) = 2
  /\ log[Len(log)].out.scenarios[1].title = "Alternate (cooler)"
  /\ log[Len(log)].out.scenarios[2].title = "Primary plan"
  /\ result.scenarios = <<log[Len(log)].out.scenarios[2]>>

\* C19: on every exit path of a request whose photo was uploaded to a temp
\* file (successful response, fallback, exception, early error return) the
\* temp file has been deleted when the handler finishes.
C19_TempFileDeleted ==
  (hpc = "finished" /\ tmpFile # "none") => tmpFile = "deleted"

(***************************************************************************)
(* Properties of normalizeBrand (part_005 and part_000).                   *)
(***************************************************************************)
SpacesIn(b) == {p \in 1..Len(b) : CharAt(b, p) = " "}

\* the first and the last white-space delimited token of a brand name
FirstWord(b) == IF SpacesIn(b) = {} THEN b ELSE SubSeq(b, 1, Min(SpacesIn(b)) - 1)

LastWord(b) == IF SpacesIn(b) = {} THEN b ELSE SubSeq(b, Max(SpacesIn(b)) + 1, Len(b))

SameIgnoringCase(b, x) == ToLower(b) = ToLower(x)

TokenIn(b, x) ==
  \/ Includes(ToLower(x), ToLower(FirstWord(b)))
  \/ Includes(ToLower(x), ToLower(LastWord(b)))

\* res is what the three rules give for the text x and the list
ByTheRules(list, x, dflt, res) ==
  /\ res \in Range(list)
  /\ \/ \E i \in DOMAIN list : SameIgnoringCase(list[i], x) /\ res = list[i]
     \/ /\ \A i \in DOMAIN list : ~SameIgnoringCase(list[i], x)
        /\ \E i \in DOMAIN list :
             /\ TokenIn(list[i], x)
             /\ \A j \in 1..(i - 1) : ~TokenIn(list[j], x)
             /\ res = list[i]
     \/ /\ \A i \in DOMAIN list : ~SameIgnoringCase(list[i], x) /\ ~TokenIn(list[i], x)
        /\ res = dflt

ListOfCategory(c) ==
  IF c = "permanent" THEN PERMANENT_BRANDS ELSE IF c = "semi" THEN SEMI_BRANDS ELSE DEMI_BRANDS

DefaultOfCategory(c) ==
  IF c = "permanent" THEN "Redken Color Gels Lacquers"
  ELSE IF c = "semi" THEN "Wella Color Fresh"
  ELSE "Redken Shades EQ"

TextOf(raw) == IF raw = Null THEN "" ELSE raw

\* C20, as stated: for every category and every raw brand (empty and absent
\* included) normalizeBrand returns the brand of the category's list equal
\* to the input whatever the case; otherwise the first brand, in
\* registration order, whose first or last token is contained in the
\* lower-cased input; otherwise the category's default.  The result is in
\* the category's list (the demi list when the category is neither
\* permanent nor semi).
C20_ByTheRulesOnRawInput ==
  reqBrand # "" =>
    ByTheRules(ListOfCategory(reqCategory), TextOf(rawBrand),
               DefaultOfCategory(reqCategory), reqBrand)

\* C20, amended: the same, the input being taken without the white space
\* around it.
C20_ByTheRulesOnTrimmedInput ==
  reqBrand # "" =>
    ByTheRules(ListOfCategory(reqCategory), Trim(TextOf(rawBrand)),
               DefaultOfCategory(reqCategory), reqBrand)

C20_Witness ==
  /\ reqCategory = "permanent"
  /\ rawBrand = " Wella Illumina Color "
  /\ reqBrand = "Wella Illumina Color"

(***************************************************************************)
(* Further properties of enforceRatioAndDeveloper (part_005 and part_000). *)
(***************************************************************************)
\* the formula begins with 'N/A', whatever the case of its letters
BeginsNA(f) == ~Falsy(f) /\ Len(f) >= 3 /\ ToLower(SubSeq(f, 1, 3)) = "n/a"

\* C22: enforceRatioAndDeveloper returns its input unchanged when the
\* formula is empty or null or begins with 'N/A' in any letter case, for
\* every brand (part_005; in part_000 fixStep passes it the non-empty
\* formulas).
C22_NoOpOnEmptyOrNA ==
  /\ (Falsy(nFormula) \/ BeginsNA(nFormula)) =>
        \A n \in DOMAIN applied : applied[n] = nFormula
  /\ BeginsNA(nFormula) =>
        \A n \in DOMAIN applied_000 : applied_000[n] = nFormula

\* the step of formula f passes the gate of ratio and developer
GateAccepts(f, brand) == stepHasRatioAndDeveloper(Step(f, ""), brand)

TrivialStep(st) ==
  st.nil \/ Falsy(st.formula) \/ (Len(st.formula) >= 3 /\ SubSeq(st.formula, 1, 3) = "N/A")

\* C23: the per-step shade validator returns true, for every brand, for a
\* null step, for a step with an empty formula and for every step whose
\* formula begins with 'N/A' (stepHasAllowedCodes in part_000; the per-step
\* check inside validateOut in part_005, which passes an output all of
\* whose steps are such).
C23_TrivialStepsPass ==
  /\ gCall = "stepHasAllowedCodes" =>
        \A i \in DOMAIN gResult : TrivialStep(StepsOf(gOut.scenarios)[i]) => gResult[i]
  /\ (gCall = "validateOut" /\ gOut.isArr
         /\ \A i \in DOMAIN StepsOf(gOut.scenarios) : TrivialStep(StepsOf(gOut.scenarios)[i]))
        => gResult.valid

\* the result is one scenario without roots and melt whose processing is line
OnlyPlan(res, line) ==
  /\ res.isArr
  /\ Len(res.scenarios) = 1
  /\ res.scenarios[1].roots = NoStep
  /\ res.scenarios[1].melt = NoStep
  /\ SubSeq(res.scenarios[1].ends.formula, 1, 3) = "N/A"
  /\ Len(res.scenarios[1].processing) = 1
  /\ SubSeq(res.scenarios[1].processing[1], 1, Len(line)) = line

\* the first scenario's ends carries the warm-blonde recipe
WarmOverwrite(res) ==
  /\ res.isArr
  /\ res.scenarios # <<>>
  /\ ~res.scenarios[1].ends.nil
  /\ res.scenarios[1].ends.formula = "Beige + Gold (1:1.5) with PRAVANA Zero Lift Creme Developer"

\* C24: expressTonesGuard applies at most one cue branch, jet-black before
\* vivid-red before warm-blonde: with the jet-black cue the result is the
\* jet-black N/A scenario whatever other cue matches; with the vivid-red cue
\* and no jet-black cue it is the vivid-red N/A scenario; the warm-blonde
\* overwrite of the first scenario's ends happens only when neither of the
\* other two cues matches.
C24_CuePriority ==
  ( /\ gCall \in {"expressTonesGuard", "expressTonesGuard_000"}
    /\ gBrand = "Pravana ChromaSilk Express Tones"
    /\ gOut.isArr )
  => /\ isJetBlack(LowerText(gOut.analysis))
          => OnlyPlan(gResult, "Not applicable for this photo")
     /\ (~isJetBlack(LowerText(gOut.analysis)) /\ wantsVividRed(LowerText(gOut.analysis)))
          => OnlyPlan(gResult, "Use ")
     /\ WarmOverwrite(gResult)
          => (~isJetBlack(LowerText(gOut.analysis)) /\ ~wantsVividRed(LowerText(gOut.analysis)))

C24_Witness ==
  /\ gCall = "expressTonesGuard_000"
  /\ gBrand = "Pravana ChromaSilk Express Tones"
  /\ gOut.analysis = "Jet black; wants rich red or a warm blonde"
  /\ wantsVividRed(LowerText(gOut.analysis))
  /\ wantsWarmBlonde(LowerText(gOut.analysis))
  /\ gResult.scenarios = <<JetBlackPlan_000>>

(***************************************************************************)
(* Properties of applyValidator and validatePrimaryScenario (part_000).    *)
(***************************************************************************)
\* the title contains 'alternate', whatever the case of its letters
HasAlternate(sc) ==
  /\ ~Falsy(sc.title)
  /\ \E p \in 1..(Len(sc.title) - 8) : ToLower(SubSeq(sc.title, p, p + 8)) = "alternate"

\* a run of digits of f from p to q that no digit precedes or follows
DigitRun(f, p, q) ==
  /\ \A k \in p..q : CharAt(f, k) \in Digits
  /\ (p = 1 \/ CharAt(f, p - 1) \notin WordChars)
  /\ (q = Len(f) \/ CharAt(f, q + 1) \notin Digits)

\* the formula holds a level of 7 to 12 as a number of its own
HighLevelToken(f) ==
  \E p \in 1..Len(f) : \E q \in p..Len(f) :
     /\ DigitRun(f, p, q)
     /\ SubSeq(f, p, q) \in {"7", "8", "9", "07", "08", "09", "10", "11", "12"}

PresentFormulas(sc) ==
  {st.formula : st \in {x \in {sc.roots, sc.melt, sc.ends} : ~x.nil /\ ~Falsy(x.formula)}}

ShouldMark(sc, analysis, brand) ==
  /\ BRAND_RULES[brand].category # "permanent"
  /\ HasAlternate(sc)
  /\ \/ isBlackOrSingleVivid(analysis)
     \/ \E f \in PresentFormulas(sc) : HighLevelToken(f)
     \/ \E st \in {sc.roots, sc.melt, sc.ends} : ~stepHasAllowedCodes(st, brand)

\* r is sc with na = true and the fixed note
Marked(r, sc) ==
  /\ DOMAIN r = DOMAIN sc \cup {"na", "note"}
  /\ r.na = TRUE
  /\ r.note = "Not applicable for this photo/brand line."
  /\ \A k \in DOMAIN sc : r[k] = sc[k]

\* C25: applyValidator marks a scenario inapplicable (na = true and the
\* fixed note) if and only if the category is not permanent, the title
\* contains 'alternate' whatever the case and the analysis matches the
\* black-or-single-vivid heuristic, or a step formula holds a level of 7 or
\* more, or a step fails stepHasAllowedCodes; every other scenario is
\* returned unchanged; number and order of the scenarios are kept.
C25_MarksAlternates ==
  (gCall = "applyValidator" /\ gOut.isArr) =>
    /\ gResult = [gOut EXCEPT !.scenarios = gResult.scenarios]
    /\ Len(gResult.scenarios) = Len(gOut.scenarios)
    /\ \A i \in DOMAIN gOut.scenarios :
          IF ShouldMark(gOut.scenarios[i], gOut.analysis, gBrand)
          THEN Marked(gResult.scenarios[i], gOut.scenarios[i])
          ELSE gResult.scenarios[i] = gOut.scenarios[i]

\* f without its leading white-space delimited token
WithoutLeadingToken(f) == Trim(SubSeq(f, Len(FirstWord(f)) + 1, Len(f)))

\* t is the step st as the sanitizer leaves it
Sanitized(st, t, brand) ==
  IF stepHasAllowedCodes(st, brand) THEN t = st
  ELSE t = [st EXCEPT !.formula = WithoutLeadingToken(st.formula)]

\* r is the first scenario sc after the repair
Repaired(sc, r, brand) ==
  /\ r = [sc EXCEPT !.processing = r.processing, !.roots = r.roots, !.melt = r.melt,
                    !.ends = r.ends]
  /\ r.processing = <<"Adjusted: removed non-brand shade codes.">> \o sc.processing
  /\ Sanitized(sc.roots, r.roots, brand)
  /\ Sanitized(sc.melt, r.melt, brand)
  /\ Sanitized(sc.ends, r.ends, brand)

\* C26: validatePrimaryScenario removes no scenario and leaves the
\* scenarios after the first untouched.  If every present step of the first
\* scenario passes stepHasAllowedCodes the output equals the input;
\* otherwise one advisory line is prepended to the first scenario's
\* processing and the leading token is removed from the formula of each
\* failing step and of no other step.
C26_PrimaryRepairedNotRejected ==
  (gCall = "validatePrimaryScenario" /\ gOut.isArr /\ gOut.scenarios # <<>>) =>
    /\ gResult = [gOut EXCEPT !.scenarios = gResult.scenarios]
    /\ Len(gResult.scenarios) = Len(gOut.scenarios)
    /\ \A i \in 2..Len(gOut.scenarios) : gResult.scenarios[i] = gOut.scenarios[i]
    /\ IF \A st \in {gOut.scenarios[1].roots, gOut.scenarios[1].melt, gOut.scenarios[1].ends} :
            stepHasAllowedCodes(st, gBrand)
       THEN gResult = gOut
       ELSE Repaired(gOut.scenarios[1], gResult.scenarios[1], gBrand)

C26_Witness ==
  /\ gCall = "validatePrimaryScenario"
  /\ gBrand = "Wella Color Touch"
  /\ Len(gOut.scenarios) = 2
  /\ gOut.scenarios[1].roots.formula = CompliantFormula(gBrand)
  /\ gOut.scenarios[1].ends.formula = "6N + 1A"
  /\ gResult.scenarios[1].roots = gOut.scenarios[1].roots
  /\ gResult.scenarios[1].ends.formula = "+ 1A"
  /\ Len(gResult.scenarios[1].processing) = Len(gOut.scenarios[1].processing) + 1

(***************************************************************************)
(* The order of the neutral-black pass and the Express Tones guard.        *)
(***************************************************************************)
\* C30: enforceNeutralBlack and expressTonesGuard commute: for every brand,
\* analysis and scenario list, the neutral-black pass followed by the guard
\* (the order of generatePlan) gives the same result as the guard followed
\* by the neutral-black pass.
C30_PassesCommute ==
  gCall \in {"bothOrders", "bothOrders_000"} => gResult[1] = gResult[2]

C30_Witness ==
  /\ gCall = "bothOrders"
  /\ gBrand = "Redken Shades EQ"
  /\ gOut.analysis = "level 1-2"
  /\ gOut.isArr
  /\ Len(gOut.scenarios) = 1
  /\ gOut.scenarios[1].ends.formula = "1A + 1A"
  /\ gResult[1].scenarios[1].ends.formula = "1N + 1N"
  /\ gResult[2] = gResult[1]

(***************************************************************************)
(* The plan of the Express Tones guard in the response of part_000.        *)
(***************************************************************************)
\* what the guard of part_000 makes of the reply r for the brand
GuardedReply(r, brand) ==
  expressTonesOf_000(enforceBrandConsistency(callOpenAI(r).value, brand), brand)

\* the guard has put its N/A plan in the place of the scenarios of the reply r
GuardReplaced(r, brand) ==
  /\ brand = "Pravana ChromaSilk Express Tones"
  /\ ~callOpenAI(r).threw
  /\ callOpenAI(r).value.kind = "obj"
  /\ callOpenAI(r).value.isArr
  /\ GuardedReply(r, brand).scenarios \in {<<JetBlackPlan_000>>, <<VividRedPlan_000>>}

\* C28: in the /analyze pipeline of part_000, whenever expressTonesGuard has
\* replaced the scenarios by its N/A plan, the response returned holds
\* exactly that plan: one scenario titled 'Primary plan' whose ends.formula
\* starts with 'N/A' and whose processing is the single line of the guard;
\* the later steps leave it unchanged.
C28_GuardPlanReturned ==
  [][ \A r \in RepliesFor(reqBrand) :
        (Analyze_000(r) /\ GuardReplaced(r, reqBrand)) =>
          /\ status' = 200
          /\ result'.scenarios = GuardedReply(r, reqBrand).scenarios
          /\ Len(result'.scenarios) = 1
          /\ result'.scenarios[1].title = "Primary plan"
          /\ SubSeq(result'.scenarios[1].ends.formula, 1, 3) = "N/A"
          /\ Len(result'.scenarios[1].processing) = 1 ]_vars

(***************************************************************************)
(* Properties of requests served concurrently.                             *)
(***************************************************************************)
\* C21: when several /analyze requests run concurrently, interleaved at the
\* points where they wait for the collaborator, what each request returns
\* or throws is what it returns or throws when it runs alone and receives
\* the same answers, all of them and no more: no step writes to state that
\* another request reads.
C21_AsIfAlone ==
  \A q \in DOMAIN runs :
    runs[q].pc = "done" =>
      Outcome(runs[q].outcome, runs[q].error, runs[q].result, Len(runs[q].received))
        = Alone(runs[q])

\* the steps of two calls of generatePlan have alternated; one has fallen
\* back, the other was accepted at its second attempt
C21_Witness ==
  /\ schedule = <<1, 2, 1, 2, 1, 2>>
  /\ runs[1].server = "part_005"
  /\ runs[2].server = "part_005"
  /\ runs[1].outcome = "FallbackReturned"
  /\ runs[2].outcome = "Accepted"
  /\ Len(runs[2].received) = 2

\* C27: the system prompt sent on attempt 1 depends on the reason for which
\* attempt 0 failed: of two calls of generatePlan with the same category
\* and brand, one whose attempt 0 fails for an unrecognized shade format
\* and one whose attempt 0 fails for the ratio or developer, the prompts
\* sent on attempt 1 differ.
C27_PromptTellsReason ==
  \A q1 \in DOMAIN runs : \A q2 \in DOMAIN runs :
    (/\ runs[q1].server = "part_005"
     /\ runs[q2].server = "part_005"
     /\ runs[q1].category = runs[q2].category
     /\ runs[q1].brand = runs[q2].brand
     /\ Len(runs[q1].prompts) >= 2
     /\ Len(runs[q2].prompts) >= 2
     /\ runs[q1].reasons[1] = FormatReason(runs[q1].brand)
     /\ runs[q2].reasons[1] = RatioReason(runs[q2].brand))
    => runs[q1].prompts[2] # runs[q2].prompts[2]

====
